---- MODULE Spec2Model ----
(***************************************************************************)
(* Canvas interaction engine of the labelling tool: App (src/App.tsx) and  *)
(* CanvasArea (the second component of src/components/Toolbar.tsx, lines   *)
(* 81-947), with the geometry helpers of src/unnamed/part_002 and the      *)
(* shortcut matcher of src/utils/keyboard.ts.                              *)
(*                                                                         *)
(* Numbers.  The code computes in IEEE doubles.  Here every length (screen *)
(* or image) is an integer count of 1/LU pixel and every scale an integer  *)
(* count of 1/SU; a product or quotient is rounded to the nearest unit.    *)
(* Action labels of the history are the ASCII names given beside each      *)
(* snapshot call (the source uses Chinese strings).                        *)
(***************************************************************************)
EXTENDS Integers, Sequences, FiniteSets, TLC

\* ------------------------------------------------------------ bounds
\* Number of arbitrary input events explored after the script of a scene.
MaxEvents == 2
\* Number of zoom events explored after a zoom script (specification SpecZoom).
MaxZoomEvents == 3

\* ------------------------------------------------------------ units
LU == 2 * 2 * 2      \* length units per pixel
SU == 10 * 10        \* scale units per 1.0

RoundDiv(a, b) == (2 * a + b) \div (2 * b)      \* b > 0, nearest unit
Px(n) == n * LU
Pt(x, y) == [x |-> Px(x), y |-> Px(y)]
Min2(a, b) == IF a < b THEN a ELSE b
Max2(a, b) == IF a > b THEN a ELSE b
Abs(a) == IF a < 0 THEN 0 - a ELSE a

\* a value or null: <<>> is null, <<v>> is v
Null == <<>>
Some(v) == <<v>>
IsNull(o) == o = <<>>
Val(o) == o[1]

\* ------------------------------------------------------------ program constants
MinScalePct == 10            \* 0.1, in 1/SU
MaxScalePct == 5000          \* 50, in 1/SU
WheelPct == 10               \* zoomIntensity 0.1, in 1/SU
ZoomNum == 12                \* handleZoom factor 1.2 = 12/10
PaddingPx == 50
VertexThreshold == 10
EdgeThreshold == 8
BodyBuffer == 5
CloseThreshold == 15
NudgeAccel == 10
MinPolygonPoints == 3        \* a vertex is deleted only from a polygon with more points
LeftOffsetPx == 64           \* width of the toolbar left of the canvas

padding == [x |-> Px(PaddingPx), y |-> Px(PaddingPx)]
imageSize == [width |-> Px(90), height |-> Px(90)]
containerRect == [left |-> Px(LeftOffsetPx), top |-> 0]

\* ------------------------------------------------------------ geometry
\* a faulty conversion, which forgets the translation (C13 must tell it from
\* screenToImage)
screenToImageUnshifted(x, y, t) ==
  [x |-> RoundDiv(x * SU, t.scale), y |-> RoundDiv(y * SU, t.scale)]

screenToImage(x, y, t) ==
  [x |-> RoundDiv((x - t.x) * SU, t.scale), y |-> RoundDiv((y - t.y) * SU, t.scale)]

imageToScreen(x, y, t) ==
  [x |-> RoundDiv(x * t.scale, SU) + t.x, y |-> RoundDiv(y * t.scale, SU) + t.y]

\* squared distance: getDistance(p1, p2) < d is DistSq(p1, p2) < d * d for d >= 0
DistSq(p1, p2) == (p2.x - p1.x) * (p2.x - p1.x) + (p2.y - p1.y) * (p2.y - p1.y)

\* threshold / transform.scale, in length units
OverScale(px, scale) == RoundDiv(Px(px) * SU, scale)

\* a faulty test, which takes a point at just the threshold as near
isPointNearVertexInclusive(point, vertex, threshold) ==
  DistSq(point, vertex) <= threshold * threshold

isPointNearVertex(point, vertex, threshold) == DistSq(point, vertex) < threshold * threshold

\* the clamped projection of p on segment v-w, then the distance test
SegProjection(p, v, w) ==
  LET l2 == DistSq(v, w)
      dot == (p.x - v.x) * (w.x - v.x) + (p.y - v.y) * (w.y - v.y)
      t == Max2(0, Min2(SU, RoundDiv(dot * SU, l2)))
  IN [x |-> v.x + RoundDiv(t * (w.x - v.x), SU), y |-> v.y + RoundDiv(t * (w.y - v.y), SU)]

SegmentNear(p, v, w, threshold) ==
  IF DistSq(v, w) = 0 THEN DistSq(p, v) < threshold * threshold
  ELSE DistSq(p, SegProjection(p, v, w)) < threshold * threshold

RECURSIVE MinOf(_, _), MaxOf(_, _)
MinOf(f, n) == IF n = 1 THEN f[1] ELSE Min2(f[n], MinOf(f, n - 1))
MaxOf(f, n) == IF n = 1 THEN f[1] ELSE Max2(f[n], MaxOf(f, n - 1))

getPointsBounds(points) ==
  LET xs == [i \in 1..Len(points) |-> points[i].x]
      ys == [i \in 1..Len(points) |-> points[i].y]
      minX == MinOf(xs, Len(points))
      maxX == MaxOf(xs, Len(points))
      minY == MinOf(ys, Len(points))
      maxY == MaxOf(ys, Len(points))
  IN [minX |-> minX, maxX |-> maxX, minY |-> minY, maxY |-> maxY,
      centerX2 |-> minX + maxX, centerY2 |-> minY + maxY]

getAnnotationBounds(ann) == getPointsBounds(ann.points)

MovePoints(points, dx, dy) ==
  [i \in 1..Len(points) |-> [x |-> points[i].x + dx, y |-> points[i].y + dy]]

moveAnnotation(ann, dx, dy) == [ann EXCEPT !.points = MovePoints(ann.points, dx, dy)]

\* ------------------------------------------------------------ keyboard
Binding(k, c, sh) == [key |-> k, ctrlKey |-> c, shiftKey |-> sh, altKey |-> FALSE]

DEFAULT_KEY_MAP ==
  [TOOL_SELECT |-> Binding("v", FALSE, FALSE),
   TOOL_PAN |-> Binding("h", FALSE, FALSE),
   TOOL_RECTANGLE |-> Binding("r", FALSE, FALSE),
   TOOL_POLYGON |-> Binding("p", FALSE, FALSE),
   ZOOM_IN |-> Binding("=", FALSE, FALSE),
   ZOOM_OUT |-> Binding("-", FALSE, FALSE),
   RESET_VIEW |-> Binding("0", FALSE, FALSE),
   UNDO |-> Binding("z", TRUE, FALSE),
   REDO |-> Binding("z", TRUE, TRUE),
   DELETE |-> Binding("delete", FALSE, FALSE),
   CANCEL |-> Binding("escape", FALSE, FALSE),
   BACKSPACE_POINT |-> Binding("backspace", FALSE, FALSE),
   NUDGE_LEFT |-> Binding("arrowleft", FALSE, FALSE),
   NUDGE_RIGHT |-> Binding("arrowright", FALSE, FALSE),
   NUDGE_UP |-> Binding("arrowup", FALSE, FALSE),
   NUDGE_DOWN |-> Binding("arrowdown", FALSE, FALSE)]

keyMap == DEFAULT_KEY_MAP

\* A key event carries key (e.key lower-cased: both sides of the comparison are
\* lower-cased, and for the keys of the default map e.code matches a binding only
\* when e.key does), ctrlKey (e.ctrlKey || e.metaKey), shiftKey and altKey.
isShortcutPressed(e, binding) ==
  /\ e.key = binding.key
  /\ binding.ctrlKey = e.ctrlKey
  /\ binding.shiftKey = e.shiftKey
  /\ binding.altKey = e.altKey

\* ------------------------------------------------------------ state
\* The program state as one record, so that a handler is an operator from the
\* state at the last render (and the event) to the state after the handler.
\*   App:        annotations, selectedIds, currentTool, transform, history, labelPopup
\*   CanvasArea: isDragging, dragStart, currentMouseImagePos, hoveredEdge,
\*               pendingPoly, pendingRectStart, activeVertex, isSpacePressed
\*   environment: now (Date.now(), read when a shape is created),
\*               mouse (where the pointer is and which button is held),
\*               viewport (window.innerWidth - 384, window.innerHeight)
\* isHoveringStartPoint, hoveredAnnotationId and tooltipPos are read by the
\* rendering only and are left out, as are the colours and display settings.

NoEdge == Null

Fresh(t) ==
  [annotations |-> <<>>, selectedIds |-> <<>>, currentTool |-> "select",
   transform |-> t, history |-> [past |-> <<>>, future |-> <<>>],
   labelPopup |-> [visible |-> FALSE, id |-> 0],
   isDragging |-> FALSE, dragStart |-> Null, currentMouseImagePos |-> Null,
   hoveredEdge |-> NoEdge, pendingPoly |-> <<>>, pendingRectStart |-> Null,
   activeVertex |-> Null, isSpacePressed |-> FALSE,
   now |-> 1, mouse |-> "outside", viewport |-> Null]

Includes(seq, v) == \E i \in 1..Len(seq) : seq[i] = v
Without(seq, v) == LET Keep(x) == x # v IN SelectSeq(seq, Keep)

\* annotations.find(a => a.id === id): index of the first match, 0 when none
FindAnn(anns, id) ==
  IF \E i \in 1..Len(anns) : anns[i].id = id
  THEN CHOOSE i \in 1..Len(anns) : anns[i].id = id /\ \A j \in 1..(i - 1) : anns[j].id # id
  ELSE 0

\* selectedIds.some(id => annotations.find(a => a.id === id)?.locked)
hasLocked(s) ==
  \E k \in 1..Len(s.selectedIds) :
    LET i == FindAnn(s.annotations, s.selectedIds[k])
    IN i # 0 /\ s.annotations[i].locked

\* annotations.map(a => a.id === id ? f(a) : a)
MapAnn(anns, id, F(_)) == [i \in 1..Len(anns) |-> IF anns[i].id = id THEN F(anns[i]) ELSE anns[i]]

\* ------------------------------------------------------------ history (App)
\* a faulty snapshot, which keeps the entries to redo
snapshotHistoryKeepingFuture(s, action) ==
  [s EXCEPT !.history.past = Append(s.history.past,
                                    [annotations |-> s.annotations, action |-> action])]

snapshotHistory(s, action) ==
  [s EXCEPT !.history = [past |-> Append(s.history.past,
                                         [annotations |-> s.annotations, action |-> action]),
                         future |-> <<>>]]

\* a faulty undo, which pops the oldest entry of past where the code pops the
\* newest (the round trip of C1 must tell it from handleUndo)
handleUndoOldest(s) ==
  IF Len(s.history.past) = 0 THEN s
  ELSE LET previous == s.history.past[1]
       IN [s EXCEPT !.history = [past |-> Tail(s.history.past),
                                 future |-> <<[annotations |-> s.annotations,
                                               action |-> previous.action]>>
                                            \o s.history.future],
                    !.annotations = previous.annotations,
                    !.selectedIds = <<>>]

\* a faulty undo, which does not keep the undone collection for a redo
handleUndoForgetting(s) ==
  IF Len(s.history.past) = 0 THEN s
  ELSE LET previous == s.history.past[Len(s.history.past)]
       IN [s EXCEPT !.history = [past |-> SubSeq(s.history.past, 1, Len(s.history.past) - 1),
                                 future |-> s.history.future],
                    !.annotations = previous.annotations,
                    !.selectedIds = <<>>]

handleUndo(s) ==
  IF Len(s.history.past) = 0 THEN s
  ELSE LET n == Len(s.history.past)
           previous == s.history.past[n]
       IN [s EXCEPT !.history = [past |-> SubSeq(s.history.past, 1, n - 1),
                                 future |-> <<[annotations |-> s.annotations,
                                               action |-> previous.action]>>
                                            \o s.history.future],
                    !.annotations = previous.annotations,
                    !.selectedIds = <<>>]

\* a faulty redo, which empties the selection also when there is nothing to redo
handleRedoClearing(s) ==
  IF Len(s.history.future) = 0 THEN [s EXCEPT !.selectedIds = <<>>]
  ELSE LET next == s.history.future[1]
       IN [s EXCEPT !.history = [past |-> Append(s.history.past,
                                                 [annotations |-> s.annotations,
                                                  action |-> next.action]),
                                 future |-> Tail(s.history.future)],
                    !.annotations = next.annotations,
                    !.selectedIds = <<>>]

\* a faulty redo, which labels the entry it pushes with the label of the newest
\* entry of past where the code takes the label of the entry it redoes
handleRedoRelabelled(s) ==
  IF Len(s.history.future) = 0 THEN s
  ELSE LET next == s.history.future[1]
           label == IF Len(s.history.past) = 0 THEN "edit"
                    ELSE s.history.past[Len(s.history.past)].action
       IN [s EXCEPT !.history = [past |-> Append(s.history.past,
                                                 [annotations |-> s.annotations,
                                                  action |-> label]),
                                 future |-> Tail(s.history.future)],
                    !.annotations = next.annotations,
                    !.selectedIds = <<>>]

handleRedo(s) ==
  IF Len(s.history.future) = 0 THEN s
  ELSE LET next == s.history.future[1]
       IN [s EXCEPT !.history = [past |-> Append(s.history.past,
                                                 [annotations |-> s.annotations,
                                                  action |-> next.action]),
                                 future |-> Tail(s.history.future)],
                    !.annotations = next.annotations,
                    !.selectedIds = <<>>]

\* ------------------------------------------------------------ App handlers
setCurrentTool(s, tool) == [s EXCEPT !.currentTool = tool]

handleShapeComplete(s, id) ==
  [s EXCEPT !.labelPopup = [visible |-> TRUE, id |-> id], !.currentTool = "select"]

handleDelete(s, ids) ==
  LET Keep(a) == ~Includes(ids, a.id)
  IN [snapshotHistory(s, "delete") EXCEPT !.annotations = SelectSeq(s.annotations, Keep),
                                          !.selectedIds = <<>>]

handleToggleVisible(s, id) ==
  LET F(a) == [a EXCEPT !.visible = ~a.visible]
  IN [s EXCEPT !.annotations = MapAnn(s.annotations, id, F)]

\* a faulty lock toggle, which leaves the annotation selected (C7 must tell it
\* from handleToggleLock)
handleToggleLockOnly(s, id) ==
  LET F(a) == [a EXCEPT !.locked = ~a.locked]
  IN [s EXCEPT !.annotations = MapAnn(s.annotations, id, F)]

handleToggleLock(s, id) ==
  LET F(a) == [a EXCEPT !.locked = ~a.locked]
  IN [s EXCEPT !.annotations = MapAnn(s.annotations, id, F),
               !.selectedIds = IF Includes(s.selectedIds, id)
                               THEN Without(s.selectedIds, id) ELSE s.selectedIds]

handleEditLabel(s, id) ==
  [s EXCEPT !.labelPopup = [visible |-> TRUE, id |-> id], !.selectedIds = <<id>>]

handleLabelSelect(s, key) ==
  LET F(a) == [a EXCEPT !.label = key]
      t == IF s.labelPopup.id # 0
           THEN [snapshotHistory(s, "setLabel")
                   EXCEPT !.annotations = MapAnn(s.annotations, s.labelPopup.id, F)]
           ELSE s
  IN [t EXCEPT !.labelPopup = [visible |-> FALSE, id |-> 0]]

closeLabelPopup(s) == [s EXCEPT !.labelPopup.visible = FALSE]

handleZoom(s, direction) ==
  [s EXCEPT !.transform.scale = IF direction = "in"
                                THEN RoundDiv(s.transform.scale * ZoomNum, 10)
                                ELSE RoundDiv(s.transform.scale * 10, ZoomNum)]

\* window.innerWidth - 384 and window.innerHeight are the event's maxWidth, maxHeight
FitTransform(maxWidth, maxHeight) ==
  LET scale == RoundDiv(Min2(RoundDiv(maxWidth * SU, imageSize.width),
                             RoundDiv(maxHeight * SU, imageSize.height)) * 9, 10)
  IN [scale |-> scale,
      x |-> RoundDiv(maxWidth - RoundDiv(imageSize.width * scale, SU), 2)
            - RoundDiv(padding.x * scale, SU),
      y |-> RoundDiv(maxHeight - RoundDiv(imageSize.height * scale, SU), 2)
            - RoundDiv(padding.y * scale, SU)]

handleResetView(s) ==
  IF imageSize.width = 0 THEN s
  ELSE [s EXCEPT !.transform = FitTransform(Val(s.viewport).maxWidth, Val(s.viewport).maxHeight)]

\* img.onload of handleImageUpload: the state in which the canvas is first shown
handleImageUpload(maxWidth, maxHeight) ==
  [Fresh(FitTransform(maxWidth, maxHeight))
     EXCEPT !.viewport = Some([maxWidth |-> maxWidth, maxHeight |-> maxHeight])]

\* img.onload of a later handleImageUpload (an image of the same size): the
\* transform is fitted again, the collection and the history are emptied, and
\* nothing else of the state is set
imgOnload(s) ==
  [s EXCEPT !.transform = FitTransform(Val(s.viewport).maxWidth, Val(s.viewport).maxHeight),
            !.annotations = <<>>,
            !.history = [past |-> <<>>, future |-> <<>>]]

\* ------------------------------------------------------------ CanvasArea helpers
getMousePos(e) == [x |-> e.clientX - containerRect.left, y |-> e.clientY - containerRect.top]

getRelativeImagePos(s, e) ==
  LET pos == getMousePos(e)
      rawPos == screenToImage(pos.x, pos.y, s.transform)
  IN [x |-> rawPos.x - padding.x, y |-> rawPos.y - padding.y]

\* a faulty cancel, which forgets the rectangle anchor and keeps the pending points
handleCancelDrawAnchorOnly(s) == [s EXCEPT !.pendingRectStart = Null]

handleCancelDraw(s) == [s EXCEPT !.pendingPoly = <<>>, !.pendingRectStart = Null]

\* a faulty point removal, which drops the first pending point
handleUndoPointFirst(s) ==
  [s EXCEPT !.pendingPoly = IF Len(s.pendingPoly) = 0 THEN <<>> ELSE Tail(s.pendingPoly)]

handleUndoPoint(s) ==
  [s EXCEPT !.pendingPoly = IF Len(s.pendingPoly) = 0 THEN <<>>
                            ELSE SubSeq(s.pendingPoly, 1, Len(s.pendingPoly) - 1)]

\* findIndex: the first index (from 0, as in the source) whose element passes, -1 when none
FindIndex(seq, Test(_)) ==
  IF \E i \in 1..Len(seq) : Test(seq[i])
  THEN (CHOOSE i \in 1..Len(seq) : Test(seq[i]) /\ \A j \in 1..(i - 1) : ~Test(seq[j])) - 1
  ELSE 0 - 1

\* the bounding box of ann, grown by buffer, contains p
BodyHit(ann, p, buffer) ==
  LET b == getPointsBounds(ann.points)
  IN /\ p.x >= b.minX - buffer /\ p.x <= b.maxX + buffer
     /\ p.y >= b.minY - buffer /\ p.y <= b.maxY + buffer

\* for (i = annotations.length - 1; i >= 0; i--): the topmost annotation hit, 0 when none
TopmostHit(anns, p, buffer, Eligible(_)) ==
  LET hits == {i \in 1..Len(anns) : Eligible(anns[i]) /\ BodyHit(anns[i], p, buffer)}
  IN IF hits = {} THEN 0 ELSE CHOOSE i \in hits : \A j \in hits : j <= i

rectCorners(ann) ==
  LET x1 == Min2(ann.points[1].x, ann.points[2].x)
      y1 == Min2(ann.points[1].y, ann.points[2].y)
      x2 == Max2(ann.points[1].x, ann.points[2].x)
      y2 == Max2(ann.points[1].y, ann.points[2].y)
  IN << [x |-> x1, y |-> y1], [x |-> x2, y |-> y1], [x |-> x2, y |-> y2], [x |-> x1, y |-> y2] >>

\* a faulty removal, which drops the last element whatever the index
RemoveLast(seq, i0) == SubSeq(seq, 1, Len(seq) - 1)

\* points.filter((_, i) => i !== i0), i0 counted from 0
RemoveAt(seq, i0) == [k \in 1..(Len(seq) - 1) |-> IF k <= i0 THEN seq[k] ELSE seq[k + 1]]
\* a faulty insertion, which puts the point at the end whatever the index
SpliceAtEnd(seq, at, p) == Append(seq, p)

\* newPoints.splice(at, 0, p), at counted from 0
\* (an index past the end inserts at the end)
Splice(seq, at, p) ==
  LET a == Min2(at, Len(seq))
  IN [k \in 1..(Len(seq) + 1) |-> IF k <= a THEN seq[k] ELSE IF k = a + 1 THEN p ELSE seq[k - 1]]
\* an empty slot of a sparse array: newPoints[i] = p with i past the end leaves holes
Hole == [x |-> 0 - 1000000, y |-> 0 - 1000000]
\* newPoints[i0] = p, i0 counted from 0
SetAt(seq, i0, p) ==
  [k \in 1..Max2(Len(seq), i0 + 1) |-> IF k = i0 + 1 THEN p ELSE IF k <= Len(seq) THEN seq[k] ELSE Hole]

\* ------------------------------------------------------------ handleMouseDown
\* A. handle / vertex clicks of the single selected annotation.  The result is
\* a faulty test, which lets any vertex go (C9 must tell it from canDeleteVertex)
canDeleteAnyVertex(ann) == Len(ann.points) > 0

\* ann.points.length > 3
canDeleteVertex(ann) == Len(ann.points) > MinPolygonPoints

\* Some(state) when the handler returns in this part and Null when it falls
\* through to the body click.
VertexClick(s, e, imgPos) ==
  IF Len(s.selectedIds) # 1 THEN Null
  ELSE
    LET selectedId == s.selectedIds[1]
        ai == FindAnn(s.annotations, selectedId)
    IN IF ai = 0 THEN Null
       ELSE
         LET ann == s.annotations[ai]
             threshold == OverScale(VertexThreshold, s.transform.scale)
             Near(c) == isPointNearVertex(c, imgPos, threshold)
         IN IF ann.locked THEN Null
            ELSE IF ann.type = "rectangle" THEN
              LET hitIndex == FindIndex(rectCorners(ann), Near)
              IN IF hitIndex # 0 - 1
                 THEN Some([snapshotHistory(s, "resizeRect")
                              EXCEPT !.activeVertex = Some([id |-> selectedId, index |-> hitIndex])])
                 ELSE Null
            ELSE
              LET clickedVertexIndex == FindIndex(ann.points, Near)
              IN IF clickedVertexIndex # 0 - 1 THEN
                   IF e.altKey THEN
                     IF canDeleteVertex(ann)
                     THEN LET F(a) == [a EXCEPT !.points = RemoveAt(ann.points, clickedVertexIndex)]
                          IN Some([snapshotHistory(s, "deleteVertex")
                                     EXCEPT !.annotations = MapAnn(s.annotations, selectedId, F)])
                     ELSE Some(s)
                   ELSE Some([snapshotHistory(s, "moveVertex")
                                EXCEPT !.activeVertex =
                                         Some([id |-> selectedId, index |-> clickedVertexIndex])])
                 ELSE IF ~IsNull(s.hoveredEdge) /\ Val(s.hoveredEdge).id = selectedId THEN
                   LET h == Val(s.hoveredEdge)
                       F(a) == [ann EXCEPT !.points = Splice(ann.points, h.index + 1, h.point)]
                   IN Some([snapshotHistory(s, "addVertex")
                              EXCEPT !.annotations = MapAnn(s.annotations, selectedId, F),
                                     !.activeVertex = Some([id |-> selectedId, index |-> h.index + 1]),
                                     !.hoveredEdge = NoEdge])
                 ELSE Null

\* B. shape body click (select and move), else a click on empty space
\* a faulty test, which lets hidden annotations be clicked
ClickEligibleHidden(a) == ~a.locked

ClickEligible(a) == a.visible /\ ~a.locked

\* a faulty body click, which replaces the selection also when the shape hit
\* is already selected
BodyClickReplacing(s, e, imgPos) ==
  LET i == TopmostHit(s.annotations, imgPos, OverScale(BodyBuffer, s.transform.scale),
                      ClickEligible)
  IN IF i # 0 THEN
       LET ann == s.annotations[i]
           sel == IF e.ctrlKey
                  THEN IF Includes(s.selectedIds, ann.id)
                       THEN Without(s.selectedIds, ann.id)
                       ELSE Append(s.selectedIds, ann.id)
                  ELSE <<ann.id>>
       IN [snapshotHistory(s, "move") EXCEPT !.selectedIds = sel,
                                             !.dragStart = Some(imgPos),
                                             !.isDragging = TRUE]
     ELSE IF ~e.shiftKey THEN [s EXCEPT !.selectedIds = <<>>] ELSE s

BodyClick(s, e, imgPos) ==
  LET i == TopmostHit(s.annotations, imgPos, OverScale(BodyBuffer, s.transform.scale),
                      ClickEligible)
  IN IF i # 0 THEN
       LET ann == s.annotations[i]
           sel == IF e.ctrlKey
                  THEN IF Includes(s.selectedIds, ann.id)
                       THEN Without(s.selectedIds, ann.id)
                       ELSE Append(s.selectedIds, ann.id)
                  ELSE IF ~Includes(s.selectedIds, ann.id) THEN <<ann.id>> ELSE s.selectedIds
       IN [snapshotHistory(s, "move") EXCEPT !.selectedIds = sel,
                                             !.dragStart = Some(imgPos),
                                             !.isDragging = TRUE]
     ELSE IF ~e.shiftKey THEN [s EXCEPT !.selectedIds = <<>>] ELSE s

NewAnnotation(s, type, points) ==
  [id |-> s.now, label |-> "defect", type |-> type, points |-> points,
   visible |-> TRUE, locked |-> FALSE]

\* a faulty commit, which adds the closing click to the polygon (C17 must tell
\* it from PolygonClick)
PolygonClickClosing(s, e, imgPos) ==
  LET t == IF Len(s.pendingPoly) = 0 THEN snapshotHistory(s, "createPolygon") ELSE s
      threshold == OverScale(CloseThreshold, s.transform.scale)
  IN IF Len(s.pendingPoly) >= 3 /\ DistSq(imgPos, s.pendingPoly[1]) < threshold * threshold
     THEN LET newPoly == NewAnnotation(s, "polygon", Append(s.pendingPoly, imgPos))
          IN handleShapeComplete([t EXCEPT !.annotations = Append(s.annotations, newPoly),
                                           !.selectedIds = <<newPoly.id>>,
                                           !.pendingPoly = <<>>,
                                           !.now = s.now + 1],
                                 newPoly.id)
     ELSE [t EXCEPT !.pendingPoly = Append(s.pendingPoly, imgPos)]

PolygonClick(s, e, imgPos) ==
  LET t == IF Len(s.pendingPoly) = 0 THEN snapshotHistory(s, "createPolygon") ELSE s
      threshold == OverScale(CloseThreshold, s.transform.scale)
  IN IF Len(s.pendingPoly) >= 3 /\ DistSq(imgPos, s.pendingPoly[1]) < threshold * threshold
     THEN LET newPoly == NewAnnotation(s, "polygon", s.pendingPoly)
          IN handleShapeComplete([t EXCEPT !.annotations = Append(s.annotations, newPoly),
                                           !.selectedIds = <<newPoly.id>>,
                                           !.pendingPoly = <<>>,
                                           !.now = s.now + 1],
                                 newPoly.id)
     ELSE [t EXCEPT !.pendingPoly = Append(s.pendingPoly, imgPos)]

handleMouseDown(s, e) ==
  LET imgPos == getRelativeImagePos(s, e)
  IN IF s.currentTool = "pan" \/ s.isSpacePressed \/ e.button = 1
     THEN [s EXCEPT !.isDragging = TRUE, !.dragStart = Some([x |-> e.clientX, y |-> e.clientY])]
     ELSE IF e.button # 0 THEN s
     ELSE IF s.currentTool = "select"
     THEN LET v == VertexClick(s, e, imgPos)
          IN IF ~IsNull(v) THEN Val(v) ELSE BodyClick(s, e, imgPos)
     ELSE IF s.currentTool = "rectangle"
     THEN [snapshotHistory(s, "createRect") EXCEPT !.pendingRectStart = Some(imgPos)]
     ELSE IF s.currentTool = "polygon"
     THEN PolygonClick(s, e, imgPos)
     ELSE s

\* ------------------------------------------------------------ handleMouseMove
HoverEdge(s, imgPos) ==
  IF s.currentTool = "select" /\ Len(s.selectedIds) = 1 /\ IsNull(s.activeVertex) /\ ~s.isDragging
  THEN LET selectedId == s.selectedIds[1]
           ai == FindAnn(s.annotations, selectedId)
       IN IF ai # 0 /\ s.annotations[ai].type = "polygon" /\ ~s.annotations[ai].locked
          THEN LET pts == s.annotations[ai].points
                   n == Len(pts)
                   edgeThreshold == OverScale(EdgeThreshold, s.transform.scale)
                   near == {i \in 1..n : SegmentNear(imgPos, pts[i], pts[(i % n) + 1], edgeThreshold)}
               IN IF near = {} THEN NoEdge
                  ELSE Some([id |-> selectedId,
                             index |-> (CHOOSE i \in near : \A j \in near : i <= j) - 1,
                             point |-> imgPos])
          ELSE NoEdge
  ELSE NoEdge

ResizeRect(ann, index, imgPos) ==
  LET p1 == ann.points[1]
      p2 == ann.points[2]
      minX == Min2(p1.x, p2.x)
      maxX == Max2(p1.x, p2.x)
      minY == Min2(p1.y, p2.y)
      maxY == Max2(p1.y, p2.y)
  IN IF index = 0 THEN << [x |-> imgPos.x, y |-> imgPos.y], [x |-> maxX, y |-> maxY] >>
     ELSE IF index = 1 THEN << [x |-> minX, y |-> imgPos.y], [x |-> imgPos.x, y |-> maxY] >>
     ELSE IF index = 2 THEN << [x |-> minX, y |-> minY], [x |-> imgPos.x, y |-> imgPos.y] >>
     ELSE IF index = 3 THEN << [x |-> imgPos.x, y |-> minY], [x |-> maxX, y |-> imgPos.y] >>
     ELSE << p1, p2 >>

\* isDragging && dragStart && selectedIds.length > 0 && !activeVertex && currentTool === 'select'
ShapeDragActive(s) ==
  /\ s.isDragging /\ ~IsNull(s.dragStart) /\ Len(s.selectedIds) > 0
  /\ IsNull(s.activeVertex) /\ s.currentTool = "select"

\* a faulty drag, which keeps measuring from the position of the pointer-down
DragShapesFromStart(s, imgPos) ==
  LET dx == imgPos.x - Val(s.dragStart).x
      dy == imgPos.y - Val(s.dragStart).y
  IN [s EXCEPT !.annotations = [i \in 1..Len(s.annotations) |->
                                  IF Includes(s.selectedIds, s.annotations[i].id)
                                  THEN moveAnnotation(s.annotations[i], dx, dy)
                                  ELSE s.annotations[i]]]

DragShapes(s, imgPos) ==
  LET dx == imgPos.x - Val(s.dragStart).x
      dy == imgPos.y - Val(s.dragStart).y
  IN [s EXCEPT !.annotations = [i \in 1..Len(s.annotations) |->
                                  IF Includes(s.selectedIds, s.annotations[i].id)
                                  THEN moveAnnotation(s.annotations[i], dx, dy)
                                  ELSE s.annotations[i]],
               !.dragStart = Some(imgPos)]

DragVertex(s, imgPos) ==
  LET selectedId == s.selectedIds[1]
      ai == FindAnn(s.annotations, selectedId)
      av == Val(s.activeVertex)
  IN IF ai = 0 THEN s
     ELSE LET ann == s.annotations[ai]
              R(a) == [ann EXCEPT !.points = ResizeRect(ann, av.index, imgPos)]
              P(a) == [ann EXCEPT !.points = SetAt(ann.points, av.index, imgPos)]
          IN IF ann.locked THEN s
             ELSE IF ann.type = "rectangle"
             THEN [s EXCEPT !.annotations = MapAnn(s.annotations, selectedId, R)]
             ELSE [s EXCEPT !.annotations = MapAnn(s.annotations, selectedId, P)]

\* e.button of a mousemove event is 0 whichever buttons are held
handleMouseMove(s, e) ==
  LET imgPos == getRelativeImagePos(s, e)
      clampedPos == [x |-> Max2(0, Min2(imgPos.x, imageSize.width)),
                     y |-> Max2(0, Min2(imgPos.y, imageSize.height))]
      s1 == [s EXCEPT !.currentMouseImagePos = Some(clampedPos),
                      !.hoveredEdge = HoverEdge(s, imgPos)]
  IN IF (s.currentTool = "pan" \/ s.isSpacePressed \/ e.button = 1)
        /\ s.isDragging /\ ~IsNull(s.dragStart)
     THEN [s1 EXCEPT !.transform.x = @ + (e.clientX - Val(s.dragStart).x),
                     !.transform.y = @ + (e.clientY - Val(s.dragStart).y),
                     !.dragStart = Some([x |-> e.clientX, y |-> e.clientY])]
     ELSE IF ShapeDragActive(s)
     THEN IF hasLocked(s) THEN s1 ELSE DragShapes(s1, imgPos)
     ELSE IF ~IsNull(s.activeVertex) /\ Len(s.selectedIds) = 1
     THEN DragVertex(s1, imgPos)
     ELSE s1

\* ------------------------------------------------------------ handleMouseUp
\* Math.abs(imgPos.x - pendingRectStart.x) > 1 && Math.abs(imgPos.y - pendingRectStart.y) > 1
isLargeEnough(start, imgPos) ==
  Abs(imgPos.x - start.x) > Px(1) /\ Abs(imgPos.y - start.y) > Px(1)

handleMouseUp(s) ==
  LET s1 == [s EXCEPT !.isDragging = FALSE, !.dragStart = Null, !.activeVertex = Null]
  IN IF ~IsNull(s.pendingRectStart) /\ s.currentTool = "rectangle"
     THEN LET imgPos == IF IsNull(s.currentMouseImagePos) THEN [x |-> 0, y |-> 0]
                        ELSE Val(s.currentMouseImagePos)
              start == Val(s.pendingRectStart)
              s2 == IF isLargeEnough(start, imgPos)
                    THEN LET newRect == NewAnnotation(s, "rectangle", << start, imgPos >>)
                         IN handleShapeComplete(
                              [s1 EXCEPT !.annotations = Append(s.annotations, newRect),
                                         !.selectedIds = <<newRect.id>>,
                                         !.now = s.now + 1],
                              newRect.id)
                    ELSE s1
          IN [s2 EXCEPT !.pendingRectStart = Null]
     ELSE s1

\* ------------------------------------------------------------ onWheel
\* a faulty clamp, which has no upper limit (C10 must tell it from clampScale)
clampScaleBelow(raw) == Max2(MinScalePct, raw)

\* Math.max(0.1, Math.min(newScale, 50))
clampScale(raw) == Max2(MinScalePct, Min2(raw, MaxScalePct))

\* a faulty offset, which keeps the translation (C12 must tell it from anchorOffset)
anchorOffsetKept(mouse, offset, newScale, scale) == offset

\* mouseX - (mouseX - transform.x) * (newScale / transform.scale)
anchorOffset(mouse, offset, newScale, scale) ==
  mouse - RoundDiv((mouse - offset) * newScale, scale)

\* direction 1 for deltaY < 0, else -1
onWheel(s, e) ==
  LET direction == IF e.arg = "in" THEN 1 ELSE 0 - 1
      pos == getMousePos(e)
      t == s.transform
      raw == RoundDiv(t.scale * (SU + direction * WheelPct), SU)
      newScale == clampScale(raw)
  IN [s EXCEPT !.transform = [scale |-> newScale,
                              x |-> anchorOffset(pos.x, t.x, newScale, t.scale),
                              y |-> anchorOffset(pos.y, t.y, newScale, t.scale)]]

\* ------------------------------------------------------------ key handlers
\* a faulty step, which ignores the zoom
StepUnscaled(n, scale) == Px(n)

\* n / transform.scale for a signed whole number of pixels n
StepOverScale(n, scale) ==
  IF n < 0 THEN 0 - RoundDiv(Px(0 - n) * SU, scale) ELSE RoundDiv(Px(n) * SU, scale)

Nudge(s, e) ==
  LET dx == IF isShortcutPressed(e, keyMap.NUDGE_LEFT) THEN 0 - 1
            ELSE IF isShortcutPressed(e, keyMap.NUDGE_RIGHT) THEN 1 ELSE 0
      dy == IF dx # 0 THEN 0
            ELSE IF isShortcutPressed(e, keyMap.NUDGE_UP) THEN 0 - 1
            ELSE IF isShortcutPressed(e, keyMap.NUDGE_DOWN) THEN 1 ELSE 0
      step == IF e.shiftKey THEN NudgeAccel ELSE 1
      mx == StepOverScale(dx * step, s.transform.scale)
      my == StepOverScale(dy * step, s.transform.scale)
  IN IF dx # 0 \/ dy # 0
     THEN [snapshotHistory(s, "nudge")
             EXCEPT !.annotations = [i \in 1..Len(s.annotations) |->
                                       IF Includes(s.selectedIds, s.annotations[i].id)
                                       THEN moveAnnotation(s.annotations[i], mx, my)
                                       ELSE s.annotations[i]]]
     ELSE s

\* CanvasArea's window keydown listener (e.repeat only guards an idempotent set)
canvasKeyDown(s, e) ==
  IF e.inInput THEN s
  ELSE LET s1 == IF e.key = " " THEN [s EXCEPT !.isSpacePressed = TRUE] ELSE s
       IN IF Len(s.pendingPoly) > 0
          THEN LET s2 == IF isShortcutPressed(e, keyMap.CANCEL) THEN handleCancelDraw(s1) ELSE s1
               IN IF isShortcutPressed(e, keyMap.BACKSPACE_POINT) THEN handleUndoPoint(s2) ELSE s2
          ELSE IF ~IsNull(s.pendingRectStart)
          THEN IF isShortcutPressed(e, keyMap.CANCEL) THEN handleCancelDraw(s1) ELSE s1
          ELSE IF Len(s.selectedIds) > 0 /\ IsNull(s.activeVertex)
          THEN IF hasLocked(s) THEN s1 ELSE Nudge(s1, e)
          ELSE s1

\* CanvasArea's window keyup listener
handleKeyUp(s, e) ==
  IF e.key = " " THEN [s EXCEPT !.isSpacePressed = FALSE, !.isDragging = FALSE] ELSE s

\* the shortcuts App's keydown listener tests, in the order it tests them
appShortcuts ==
  << "TOOL_SELECT", "TOOL_PAN", "TOOL_RECTANGLE", "TOOL_POLYGON",
     "ZOOM_IN", "ZOOM_OUT", "RESET_VIEW", "UNDO", "REDO" >>

\* what the listener calls when shortcut name is pressed
appShortcutCall(s, name) ==
  CASE name = "TOOL_SELECT" -> setCurrentTool(s, "select")
    [] name = "TOOL_PAN" -> setCurrentTool(s, "pan")
    [] name = "TOOL_RECTANGLE" -> setCurrentTool(s, "rectangle")
    [] name = "TOOL_POLYGON" -> setCurrentTool(s, "polygon")
    [] name = "ZOOM_IN" -> handleZoom(s, "in")
    [] name = "ZOOM_OUT" -> handleZoom(s, "out")
    [] name = "RESET_VIEW" -> handleResetView(s)
    [] name = "UNDO" -> handleUndo(s)
    [] name = "REDO" -> handleRedo(s)

\* the first k tests of the listener, one after the other
RECURSIVE appShortcutTests(_, _, _)
appShortcutTests(s, e, k) ==
  IF k = 0 THEN s
  ELSE IF isShortcutPressed(e, keyMap[appShortcuts[k]])
       THEN appShortcutCall(appShortcutTests(s, e, k - 1), appShortcuts[k])
       ELSE appShortcutTests(s, e, k - 1)

\* App's window keydown listener
appKeyDown(s, e) ==
  IF e.inInput THEN s
  ELSE IF isShortcutPressed(e, keyMap.DELETE) /\ Len(s.selectedIds) > 0 /\ ~hasLocked(s)
       THEN handleDelete(appShortcutTests(s, e, Len(appShortcuts)), s.selectedIds)
       ELSE appShortcutTests(s, e, Len(appShortcuts))

\* both listeners run on one keydown; under the default key map at most one of
\* them changes the state for a given key
handleKeyDown(s, e) == appKeyDown(canvasKeyDown(s, e), e)

\* ------------------------------------------------------------ align / distribute (App)
\* a / b to the nearest unit, symmetric in the sign of a (b > 0)
RoundDivS(a, b) == IF a < 0 THEN 0 - RoundDiv(0 - a, b) ELSE RoundDiv(a, b)

SelectedAnns(s) ==
  LET Sel(a) == Includes(s.selectedIds, a.id) IN SelectSeq(s.annotations, Sel)

\* a faulty offset, which matches the centres whatever the type (C15 must
\* tell it from alignOffset)
alignOffsetCentred(type, g, b) ==
  [dx |-> IF type \in {"left", "center", "right"}
          THEN RoundDivS((g.minX + g.maxX) - b.centerX2, 2) ELSE 0,
   dy |-> IF type \in {"top", "middle", "bottom"}
          THEN RoundDivS((g.minY + g.maxY) - b.centerY2, 2) ELSE 0]

\* the switch of handleAlign: dx and dy for a shape of bounds b in a group of
\* bounds g (groupCenterX is (g.minX + g.maxX) / 2)
alignOffset(type, g, b) ==
  [dx |-> IF type = "left" THEN g.minX - b.minX
          ELSE IF type = "right" THEN g.maxX - b.maxX
          ELSE IF type = "center" THEN RoundDivS((g.minX + g.maxX) - b.centerX2, 2)
          ELSE 0,
   dy |-> IF type = "top" THEN g.minY - b.minY
          ELSE IF type = "bottom" THEN g.maxY - b.maxY
          ELSE IF type = "middle" THEN RoundDivS((g.minY + g.maxY) - b.centerY2, 2)
          ELSE 0]

\* a faulty align, which takes the snapshot after the shapes are moved
handleAlignSavingAfter(s, type) ==
  LET selectedAnns == SelectedAnns(s)
      n == Len(selectedAnns)
      allBounds == [i \in 1..n |-> getAnnotationBounds(selectedAnns[i])]
      g == [minX |-> MinOf([i \in 1..n |-> allBounds[i].minX], n),
            maxX |-> MaxOf([i \in 1..n |-> allBounds[i].maxX], n),
            minY |-> MinOf([i \in 1..n |-> allBounds[i].minY], n),
            maxY |-> MaxOf([i \in 1..n |-> allBounds[i].maxY], n)]
  IN IF n < 2 THEN s
     ELSE snapshotHistory(
          [s EXCEPT !.annotations =
               [i \in 1..Len(s.annotations) |->
                  IF ~Includes(s.selectedIds, s.annotations[i].id) THEN s.annotations[i]
                  ELSE LET d == alignOffset(type, g, getAnnotationBounds(s.annotations[i]))
                       IN moveAnnotation(s.annotations[i], d.dx, d.dy)]], "align")

handleAlign(s, type) ==
  LET selectedAnns == SelectedAnns(s)
      n == Len(selectedAnns)
      allBounds == [i \in 1..n |-> getAnnotationBounds(selectedAnns[i])]
      g == [minX |-> MinOf([i \in 1..n |-> allBounds[i].minX], n),
            maxX |-> MaxOf([i \in 1..n |-> allBounds[i].maxX], n),
            minY |-> MinOf([i \in 1..n |-> allBounds[i].minY], n),
            maxY |-> MaxOf([i \in 1..n |-> allBounds[i].maxY], n)]
  IN IF n < 2 THEN s
     ELSE [snapshotHistory(s, "align")
             EXCEPT !.annotations =
               [i \in 1..Len(s.annotations) |->
                  IF ~Includes(s.selectedIds, s.annotations[i].id) THEN s.annotations[i]
                  ELSE LET d == alignOffset(type, g, getAnnotationBounds(s.annotations[i]))
                       IN moveAnnotation(s.annotations[i], d.dx, d.dy)]]

\* [...selectedAnns].sort(by centre): a stable sort; SortedBy[k] is the position in
\* selectedAnns of the k-th shape of the sorted list
SortedBy(c) ==
  LET n == Len(c)
      rank(i) == Cardinality({j \in 1..n : c[j] < c[i] \/ (c[j] = c[i] /\ j < i)})
  IN [k \in 1..n |-> CHOOSE i \in 1..n : rank(i) = k - 1]

\* a faulty step, which divides the span by the number of shapes (C16 must
\* tell it from distributeDiff)
distributeDiffByCount(start2, end2, cur2, index, n1) ==
  RoundDivS((end2 - start2) * index - (cur2 - start2) * (n1 + 1), 2 * (n1 + 1))

\* targetPos - currentPos, with targetPos = start + step * index and
\* step = (end - start) / (sorted.length - 1); positions counted in halves,
\* n1 = sorted.length - 1
distributeDiff(start2, end2, cur2, index, n1) ==
  RoundDivS((end2 - start2) * index - (cur2 - start2) * n1, 2 * n1)

\* sorted.forEach: each shape moved in turn, in newAnnotations
RECURSIVE DistributeFrom(_, _, _, _, _, _)
DistributeFrom(anns, sorted, k, start2, end2, horizontal) ==
  IF k > Len(sorted) THEN anns
  ELSE LET ann == sorted[k]
           b == getAnnotationBounds(ann)
           cur2 == IF horizontal THEN b.centerX2 ELSE b.centerY2
           n1 == Len(sorted) - 1
           diff == distributeDiff(start2, end2, cur2, k - 1, n1)
           annIndex == FindAnn(anns, ann.id)
           moved == IF annIndex = 0 THEN anns
                    ELSE [anns EXCEPT ![annIndex] =
                            moveAnnotation(anns[annIndex],
                                           IF horizontal THEN diff ELSE 0,
                                           IF horizontal THEN 0 ELSE diff)]
       IN DistributeFrom(moved, sorted, k + 1, start2, end2, horizontal)

\* a faulty distribute, which needs two selected annotations where the code
\* needs three
handleDistributeFromTwo(s, type) ==
  LET selectedAnns == SelectedAnns(s)
      n == Len(selectedAnns)
      horizontal == type = "horizontal"
      c == [i \in 1..n |-> IF horizontal THEN getAnnotationBounds(selectedAnns[i]).centerX2
                           ELSE getAnnotationBounds(selectedAnns[i]).centerY2]
      order == SortedBy(c)
      sorted == [k \in 1..n |-> selectedAnns[order[k]]]
  IN IF n < 2 THEN s
     ELSE [snapshotHistory(s, "distribute")
             EXCEPT !.annotations =
               DistributeFrom(s.annotations, sorted, 1, c[order[1]], c[order[n]], horizontal)]

handleDistribute(s, type) ==
  LET selectedAnns == SelectedAnns(s)
      n == Len(selectedAnns)
      horizontal == type = "horizontal"
      c == [i \in 1..n |-> IF horizontal THEN getAnnotationBounds(selectedAnns[i]).centerX2
                           ELSE getAnnotationBounds(selectedAnns[i]).centerY2]
      order == SortedBy(c)
      sorted == [k \in 1..n |-> selectedAnns[order[k]]]
  IN IF n < 3 THEN s
     ELSE [snapshotHistory(s, "distribute")
             EXCEPT !.annotations =
               DistributeFrom(s.annotations, sorted, 1, c[order[1]], c[order[n]], horizontal)]

\* ------------------------------------------------------------ Sidebar
\* a faulty row click, which selects a locked annotation as well
sidebarRowClickLocked(s, id, ctrlKey) ==
  LET ai == FindAnn(s.annotations, id)
  IN IF ai = 0 THEN s
     ELSE IF ctrlKey
     THEN IF Includes(s.selectedIds, id)
          THEN [s EXCEPT !.selectedIds = Without(s.selectedIds, id)]
          ELSE [s EXCEPT !.selectedIds = Append(s.selectedIds, id)]
     ELSE [s EXCEPT !.selectedIds = <<id>>]

\* the row's onClick
sidebarRowClick(s, id, ctrlKey) ==
  LET ai == FindAnn(s.annotations, id)
  IN IF ai = 0 \/ s.annotations[ai].locked THEN s
     ELSE IF ctrlKey
     THEN IF Includes(s.selectedIds, id)
          THEN [s EXCEPT !.selectedIds = Without(s.selectedIds, id)]
          ELSE [s EXCEPT !.selectedIds = Append(s.selectedIds, id)]
     ELSE [s EXCEPT !.selectedIds = <<id>>]

\* ------------------------------------------------------------ events
\* One input event.  kind names the listener; the other fields are the event's
\* properties the handlers read (unused ones keep the values of NoEvent).
NoEvent ==
  [kind |-> "none", clientX |-> 0, clientY |-> 0, button |-> 0, key |-> "",
   ctrlKey |-> FALSE, shiftKey |-> FALSE, altKey |-> FALSE, inInput |-> FALSE,
   id |-> 0, arg |-> ""]

\* the client position at which image point (x, y), in pixels, is shown under t
ClientAt(x, y, t) ==
  LET sp == imageToScreen(Px(x) + padding.x, Px(y) + padding.y, t)
  IN [x |-> sp.x + containerRect.left, y |-> sp.y + containerRect.top]

MouseEv(kind, c, button, mods) ==
  [NoEvent EXCEPT !.kind = kind, !.clientX = c.x, !.clientY = c.y, !.button = button,
                  !.ctrlKey = mods = "ctrl", !.altKey = mods = "alt", !.shiftKey = mods = "shift"]
KeyEv(key, ctrl, shift) ==
  [NoEvent EXCEPT !.kind = "keyDown", !.key = key, !.ctrlKey = ctrl, !.shiftKey = shift]
UiEv(kind, id, arg) == [NoEvent EXCEPT !.kind = kind, !.id = id, !.arg = arg]

AnnIds(s) == {s.annotations[i].id : i \in 1..Len(s.annotations)}
IsUnlocked(s, id) == FindAnn(s.annotations, id) # 0 /\ ~s.annotations[FindAnn(s.annotations, id)].locked

\* What the browser and the page layout allow.  A button is pressed over the
\* canvas after the pointer moved there and released after it was pressed; leaving
\* the canvas fires onMouseLeave; the toolbar, the sidebar and the label popup
\* are clicked with the pointer outside the canvas; a sidebar row, and the
\* buttons a row shows, exist for the annotations of the list.
Allowed(s, e) ==
  CASE e.kind = "mouseDown" -> s.mouse = "hover"
    [] e.kind = "mouseMove" -> TRUE
    [] e.kind = "mouseUp" -> s.mouse \in {"left", "middle"}
    [] e.kind = "mouseLeave" -> s.mouse # "outside"
    [] e.kind = "wheel" -> s.mouse # "outside"
    [] e.kind \in {"keyDown", "keyUp"} -> TRUE
    [] e.kind \in {"setTool", "align", "distribute"} -> s.mouse = "outside"
    [] e.kind \in {"rowClick", "toggleVisible", "toggleLock"} ->
         s.mouse = "outside" /\ e.id \in AnnIds(s)
    [] e.kind \in {"editLabel", "deleteButton"} ->
         s.mouse = "outside" /\ e.id \in AnnIds(s) /\ IsUnlocked(s, e.id)
    [] e.kind \in {"labelSelect", "closePopup"} -> s.mouse = "outside" /\ s.labelPopup.visible
    [] OTHER -> FALSE

\* The state after event e is handled in state s.
Step(s, e) ==
  CASE e.kind = "mouseDown" ->
         [handleMouseDown(s, e) EXCEPT !.mouse = IF e.button = 0 THEN "left" ELSE "middle"]
    [] e.kind = "mouseMove" ->
         [handleMouseMove(s, e) EXCEPT !.mouse = IF s.mouse = "outside" THEN "hover" ELSE s.mouse]
    [] e.kind = "mouseUp" -> [handleMouseUp(s) EXCEPT !.mouse = "hover"]
    [] e.kind = "mouseLeave" -> [handleMouseUp(s) EXCEPT !.mouse = "outside"]
    [] e.kind = "wheel" -> onWheel(s, e)
    [] e.kind = "keyDown" -> handleKeyDown(s, e)
    [] e.kind = "keyUp" -> handleKeyUp(s, e)
    [] e.kind = "setTool" -> setCurrentTool(s, e.arg)
    [] e.kind = "rowClick" -> sidebarRowClick(s, e.id, e.ctrlKey)
    [] e.kind = "toggleVisible" -> handleToggleVisible(s, e.id)
    [] e.kind = "toggleLock" -> handleToggleLock(s, e.id)
    [] e.kind = "editLabel" -> handleEditLabel(s, e.id)
    [] e.kind = "deleteButton" -> handleDelete(s, <<e.id>>)
    [] e.kind = "labelSelect" -> handleLabelSelect(s, e.arg)
    [] e.kind = "closePopup" -> closeLabelPopup(s)
    [] e.kind = "align" -> handleAlign(s, e.arg)
    [] e.kind = "distribute" -> handleDistribute(s, e.arg)
    [] OTHER -> s

\* ------------------------------------------------------------ scripted scenes
\* A behaviour starts with an image load followed by a script of events that
\* sets a scene (shapes drawn, selected, locked, a drawing or a drag under
\* way); the events after the script are arbitrary.
\* window sizes for which the 90 x 90 image is fitted at scale 1 and at scale 2
Viewport1 == [maxWidth |-> Px(100), maxHeight |-> Px(100)]
Viewport2 == [maxWidth |-> Px(200), maxHeight |-> Px(200)]

T0(vp) == FitTransform(vp.maxWidth, vp.maxHeight)
Move(x, y, vp) == MouseEv("mouseMove", ClientAt(x, y, T0(vp)), 0, "")
Down(x, y, vp) == MouseEv("mouseDown", ClientAt(x, y, T0(vp)), 0, "")
DownWith(x, y, vp, mods) == MouseEv("mouseDown", ClientAt(x, y, T0(vp)), 0, mods)
Up == [NoEvent EXCEPT !.kind = "mouseUp"]
Leave == [NoEvent EXCEPT !.kind = "mouseLeave"]
Key(k) == KeyEv(k, FALSE, FALSE)
Click(x, y, vp) == << Move(x, y, vp), Down(x, y, vp), Up >>
CtrlClick(x, y, vp) == << Move(x, y, vp), DownWith(x, y, vp, "ctrl"), Up >>

DrawRect(x1, y1, x2, y2, vp) ==
  << Key("r"), Move(x1, y1, vp), Down(x1, y1, vp), Move(x2, y2, vp), Up >>
DrawPolygon(vp) ==
  << Key("p") >> \o Click(0, 0, vp) \o Click(20, 0, vp) \o Click(20, 20, vp)
    \o Click(0, 20, vp) \o Click(0, 0, vp)
DrawTriangle(vp) ==
  << Key("p") >> \o Click(0, 0, vp) \o Click(20, 0, vp) \o Click(20, 20, vp) \o Click(0, 0, vp)
TwoRects(vp) == DrawRect(0, 0, 20, 20, vp) \o DrawRect(30, 10, 50, 40, vp)

ScriptEmpty(vp) == << >>
ScriptRect(vp) == DrawRect(0, 0, 20, 20, vp)
ScriptPendingPoly(vp) ==
  DrawRect(30, 10, 50, 40, vp) \o << Key("p") >> \o Click(0, 0, vp) \o Click(20, 0, vp)
ScriptPendingRect(vp) ==
  DrawRect(30, 10, 50, 40, vp) \o << Key("r"), Move(0, 0, vp), Down(0, 0, vp) >>
ScriptRectSelected(vp) == TwoRects(vp) \o << Key("v") >> \o Click(10, 10, vp)
ScriptNudged(vp) ==
  TwoRects(vp) \o << Key("v") >> \o Click(10, 10, vp) \o << Key("arrowright") >>
ScriptPolygonSelected(vp) == DrawPolygon(vp) \o << Key("v"), Move(10, 10, vp) >>
ScriptTriangle(vp) == DrawTriangle(vp)
ScriptTwoSelected(vp) ==
  TwoRects(vp) \o << Key("v") >> \o Click(10, 10, vp) \o CtrlClick(40, 30, vp) \o << Leave >>
ScriptThreeSelected(vp) ==
  TwoRects(vp) \o DrawRect(60, 50, 70, 70, vp) \o << Key("v") >> \o Click(10, 10, vp)
    \o CtrlClick(40, 30, vp) \o CtrlClick(65, 60, vp) \o << Leave >>
ScriptLocked(vp) ==
  TwoRects(vp) \o << Key("v"), Leave, UiEv("toggleLock", 1, ""), UiEv("rowClick", 2, "") >>
ScriptPanning(vp) ==
  ScriptRectSelected(vp) \o << Key("h"), Down(10, 10, vp) >>

Scripts ==
  LET vp == Viewport1
  IN { ScriptEmpty(vp), ScriptRect(vp), ScriptPendingPoly(vp), ScriptPendingRect(vp),
       ScriptRectSelected(vp), ScriptNudged(vp), ScriptPolygonSelected(vp),
       ScriptTriangle(vp),
       ScriptTwoSelected(vp),
       ScriptThreeSelected(vp), ScriptLocked(vp), ScriptPanning(vp) }
ScriptsZoomed ==
  LET vp == Viewport2 IN { ScriptRect(vp), ScriptPolygonSelected(vp) }

\* ------------------------------------------------------------ the state machine
VARIABLES annotations, selectedIds, currentTool, transform, history, labelPopup,
          isDragging, dragStart, currentMouseImagePos, hoveredEdge, pendingPoly,
          pendingRectStart, activeVertex, isSpacePressed,
          now, mouse, viewport,
          script,    \* the events of the scene's script still to come
          ev,        \* the event handled last
          prevEv,    \* the event handled before it
          atPointerDown,  \* the collection when the pointer was last pressed
          panning,   \* a pointer press that began a pan is still held
          nEvents,   \* events handled since the script ended
          probe      \* the value a geometry function is tried on (NoProbe in the app)

vars == << annotations, selectedIds, currentTool, transform, history, labelPopup,
           isDragging, dragStart, currentMouseImagePos, hoveredEdge, pendingPoly,
           pendingRectStart, activeVertex, isSpacePressed, now, mouse, viewport,
           script, ev, prevEv, atPointerDown, panning, nEvents, probe >>

State ==
  [annotations |-> annotations, selectedIds |-> selectedIds, currentTool |-> currentTool,
   transform |-> transform, history |-> history, labelPopup |-> labelPopup,
   isDragging |-> isDragging, dragStart |-> dragStart,
   currentMouseImagePos |-> currentMouseImagePos, hoveredEdge |-> hoveredEdge,
   pendingPoly |-> pendingPoly, pendingRectStart |-> pendingRectStart,
   activeVertex |-> activeVertex, isSpacePressed |-> isSpacePressed,
   now |-> now, mouse |-> mouse, viewport |-> viewport]

Becomes(n) ==
  /\ annotations' = n.annotations /\ selectedIds' = n.selectedIds
  /\ currentTool' = n.currentTool /\ transform' = n.transform
  /\ history' = n.history /\ labelPopup' = n.labelPopup
  /\ isDragging' = n.isDragging /\ dragStart' = n.dragStart
  /\ currentMouseImagePos' = n.currentMouseImagePos /\ hoveredEdge' = n.hoveredEdge
  /\ pendingPoly' = n.pendingPoly /\ pendingRectStart' = n.pendingRectStart
  /\ activeVertex' = n.activeVertex /\ isSpacePressed' = n.isSpacePressed
  /\ now' = n.now /\ mouse' = n.mouse /\ viewport' = n.viewport

\* the state after the step, as a record
StateNext ==
  [annotations |-> annotations', selectedIds |-> selectedIds', currentTool |-> currentTool',
   transform |-> transform', history |-> history', labelPopup |-> labelPopup',
   isDragging |-> isDragging', dragStart |-> dragStart',
   currentMouseImagePos |-> currentMouseImagePos', hoveredEdge |-> hoveredEdge',
   pendingPoly |-> pendingPoly', pendingRectStart |-> pendingRectStart',
   activeVertex |-> activeVertex', isSpacePressed |-> isSpacePressed',
   now |-> now', mouse |-> mouse', viewport |-> viewport']

Loaded(sc) ==
  /\ annotations = sc.annotations /\ selectedIds = sc.selectedIds
  /\ currentTool = sc.currentTool /\ transform = sc.transform
  /\ history = sc.history /\ labelPopup = sc.labelPopup
  /\ isDragging = sc.isDragging /\ dragStart = sc.dragStart
  /\ currentMouseImagePos = sc.currentMouseImagePos /\ hoveredEdge = sc.hoveredEdge
  /\ pendingPoly = sc.pendingPoly /\ pendingRectStart = sc.pendingRectStart
  /\ activeVertex = sc.activeVertex /\ isSpacePressed = sc.isSpacePressed
  /\ now = sc.now /\ mouse = sc.mouse /\ viewport = sc.viewport

NoProbe == [kind |-> "none"]

Init ==
  /\ \/ /\ Loaded(handleImageUpload(Viewport1.maxWidth, Viewport1.maxHeight))
        /\ script \in Scripts
     \/ /\ Loaded(handleImageUpload(Viewport2.maxWidth, Viewport2.maxHeight))
        /\ script \in ScriptsZoomed
  /\ ev = NoEvent
  /\ prevEv = NoEvent
  /\ atPointerDown = << >>
  /\ panning = FALSE
  /\ nEvents = 0
  /\ probe = NoProbe

\* what is remembered of the events: the last two, the collection at the last
\* pointer-down, and whether a pointer-down made with the pan tool, the space
\* key held or the middle button has not yet been followed by a pointer-up
\* (or the pointer leaving the canvas) or a release of the space key
Remembered(e) ==
  /\ ev' = e
  /\ prevEv' = ev
  /\ atPointerDown' = IF e.kind = "mouseDown" THEN annotations ELSE atPointerDown
  /\ panning' = CASE e.kind = "mouseDown" ->
                       currentTool = "pan" \/ isSpacePressed \/ e.button = 1
                  [] e.kind \in {"mouseUp", "mouseLeave"} -> FALSE
                  [] e.kind = "keyUp" /\ e.key = " " -> FALSE
                  [] OTHER -> panning

Logged(e) == Remembered(e) /\ UNCHANGED probe

\* the next event of the scene's script
Replay ==
  /\ script # << >>
  /\ Allowed(State, Head(script))
  /\ Becomes(Step(State, Head(script)))
  /\ Logged(Head(script))
  /\ script' = Tail(script)
  /\ UNCHANGED nEvents

\* an arbitrary event e after the script
Handle(e) ==
  /\ script = << >>
  /\ nEvents < MaxEvents
  /\ Allowed(State, e)
  /\ Becomes(Step(State, e))
  /\ Logged(e)
  /\ nEvents' = nEvents + 1
  /\ UNCHANGED script

\* pointer positions: where five image points are shown under the initial transform
ImgPts == { <<0, 0>>, <<10, 0>>, <<10, 10>>, <<20, 20>>, <<40, 30>> }
ClientPts == { ClientAt(p[1], p[2], T0(Val(viewport))) : p \in ImgPts }

MouseDown ==
  \E c \in ClientPts, m \in {"", "ctrl", "alt", "shift", "middle"} :
    Handle(MouseEv("mouseDown", c, IF m = "middle" THEN 1 ELSE 0, m))
MouseMove == \E c \in ClientPts : Handle(MouseEv("mouseMove", c, 0, ""))
MouseUp == Handle(Up)
MouseLeave == Handle(Leave)
WheelPts == { ClientAt(p[1], p[2], T0(Val(viewport))) : p \in {<<10, 10>>, <<40, 30>>} }
Wheel ==
  \E c \in WheelPts, d \in {"in", "out"} :
    Handle([MouseEv("wheel", c, 0, "") EXCEPT !.arg = d])

Keys ==
  { Key("v"), Key("h"), Key("r"), Key("p"), Key("="), Key("-"), Key("0"),
    KeyEv("z", TRUE, FALSE), KeyEv("z", TRUE, TRUE),
    Key("delete"), Key("escape"), Key("backspace"),
    Key("arrowleft"), Key("arrowdown"), KeyEv("arrowleft", FALSE, TRUE), Key(" "),
    [Key("escape") EXCEPT !.inInput = TRUE] }
KeyDown == \E k \in Keys : Handle(k)
KeyUp == Handle([NoEvent EXCEPT !.kind = "keyUp", !.key = " "])

ToolbarTool == \E tool \in {"select", "pan", "rectangle", "polygon"} : Handle(UiEv("setTool", 0, tool))
RowClick ==
  \E id \in AnnIds(State), c \in BOOLEAN : Handle([UiEv("rowClick", id, "") EXCEPT !.ctrlKey = c])
ToggleVisible == \E id \in AnnIds(State) : Handle(UiEv("toggleVisible", id, ""))
ToggleLock == \E id \in AnnIds(State) : Handle(UiEv("toggleLock", id, ""))
EditLabel == \E id \in AnnIds(State) : Handle(UiEv("editLabel", id, ""))
DeleteButton == \E id \in AnnIds(State) : Handle(UiEv("deleteButton", id, ""))
LabelSelect == Handle(UiEv("labelSelect", 0, "crack"))
ClosePopup == Handle(UiEv("closePopup", 0, ""))
Align ==
  \E type \in {"left", "center", "right", "top", "middle", "bottom"} : Handle(UiEv("align", 0, type))
Distribute == \E type \in {"horizontal", "vertical"} : Handle(UiEv("distribute", 0, type))

Next ==
  \/ Replay
  \/ MouseDown \/ MouseMove \/ MouseUp \/ MouseLeave \/ Wheel
  \/ KeyDown \/ KeyUp
  \/ ToolbarTool \/ RowClick \/ ToggleVisible \/ ToggleLock \/ EditLabel \/ DeleteButton
  \/ LabelSelect \/ ClosePopup \/ Align \/ Distribute

Spec == Init /\ [][Next]_vars

\* ------------------------------------------------------------ zooming
\* The view is zoomed far in or far out by a script of zoom keys or of wheel
\* events; arbitrary wheel and zoom events follow.
Times(e, k) == [i \in 1..k |-> e]
WheelAt(x, y, vp, d) == [MouseEv("wheel", ClientAt(x, y, T0(vp)), 0, "") EXCEPT !.arg = d]

ZoomScripts ==
  LET vp == Viewport1
      enter == << Move(10, 10, vp) >>
  IN { enter }
     \cup { enter \o Times(Key("="), k) : k \in {21, 22, 23} }
     \cup { enter \o Times(Key("-"), k) : k \in {12, 13, 14} }
     \cup { enter \o Times(WheelAt(10, 10, vp, "in"), 42),
            enter \o Times(WheelAt(10, 10, vp, "out"), 23) }

InitZoom ==
  /\ Loaded(handleImageUpload(Viewport1.maxWidth, Viewport1.maxHeight))
  /\ script \in ZoomScripts
  /\ ev = NoEvent
  /\ prevEv = NoEvent
  /\ atPointerDown = << >>
  /\ panning = FALSE
  /\ nEvents = 0
  /\ probe = NoProbe

\* an arbitrary zoom event e after the script
HandleZoom(e) ==
  /\ script = << >>
  /\ nEvents < MaxZoomEvents
  /\ Allowed(State, e)
  /\ Becomes(Step(State, e))
  /\ Logged(e)
  /\ nEvents' = nEvents + 1
  /\ UNCHANGED script

WheelZoom == \E c \in WheelPts, d \in {"in", "out"} : HandleZoom([MouseEv("wheel", c, 0, "") EXCEPT !.arg = d])
KeyZoom == \E k \in {"=", "-", "0"} : HandleZoom(Key(k))

NextZoom == Replay \/ WheelZoom \/ KeyZoom

SpecZoom == InitZoom /\ [][NextZoom]_vars

\* ------------------------------------------------------------ properties
Last(seq) == seq[Len(seq)]
IsUndoKey(e) == e.kind = "keyDown" /\ ~e.inInput /\ isShortcutPressed(e, keyMap.UNDO)
IsRedoKey(e) == e.kind = "keyDown" /\ ~e.inInput /\ isShortcutPressed(e, keyMap.REDO)

\* C1: a step that pushes an entry onto history.past pushes the collection as
\* it was before the step (A); and in every state it leads to, whatever the
\* collection has become (B), handleUndo sets the collection to the newest
\* entry of past, which is A, and handleRedo right after that undo sets it to B.
C1_UndoRedoRoundTrip ==
  [][ /\ Len(history'.past) > Len(history.past) =>
          Last(history'.past).annotations = annotations
      /\ Len(history'.past) > 0 =>
          /\ handleUndo(StateNext).annotations = Last(history'.past).annotations
          /\ handleRedo(handleUndo(StateNext)).annotations = annotations' ]_vars

\* C1 happens: an undo and then a redo were keyed after a mutation, and the
\* collection is again the mutated one, different from the snapshot before it
C1_Witness ==
  /\ IsUndoKey(prevEv)
  /\ IsRedoKey(ev)
  /\ history.future = << >>
  /\ Len(history.past) > 0
  /\ Last(history.past).annotations # annotations
  /\ handleUndo(State).annotations = Last(history.past).annotations

\* membership, points and labels of a collection
Content(anns) ==
  [i \in 1..Len(anns) |-> [id |-> anns[i].id, points |-> anns[i].points, label |-> anns[i].label]]

\* the collection just before the interaction of event e began: for a pointer
\* move or release, the collection when the pointer was pressed; for any other
\* event, the collection when the event arrived
BeforeInteraction(e) ==
  IF e.kind \in {"mouseMove", "mouseUp", "mouseLeave"} /\ atPointerDown # << >>
  THEN atPointerDown ELSE annotations

\* C2: whenever an event other than undo and redo changes the membership, the
\* points or a label of the collection, the newest entry of history.past is
\* the collection as it was just before the interaction began, so that an
\* undo right after restores it.
C2_EveryEditUndoable ==
  [][ (Content(annotations') # Content(annotations) /\ ~IsUndoKey(ev') /\ ~IsRedoKey(ev')) =>
        /\ Len(history'.past) > 0
        /\ Content(handleUndo(StateNext).annotations) = Content(BeforeInteraction(ev')) ]_vars

\* the transient interactions under way
Transients ==
  {k \in {"drag", "vertexDrag", "pendingRect", "pendingPoly"} :
     \/ k = "drag" /\ isDragging
     \/ k = "vertexDrag" /\ ~IsNull(activeVertex)
     \/ k = "pendingRect" /\ ~IsNull(pendingRectStart)
     \/ k = "pendingPoly" /\ Len(pendingPoly) > 0}

\* C3: in every reachable state at most one of a drag (isDragging), a vertex
\* drag (activeVertex), a pending rectangle (pendingRectStart) and a pending
\* polygon (pendingPoly) is under way.
C3_OneTransient == Cardinality(Transients) <= 1

\* C4: while a pointer press that began a pan is held, a pointer move changes
\* nothing but the translation of the view: the collection, the selection,
\* the scale and the history stay as they are, and the translation changes by
\* the screen-space delta from the previous pointer position (given by the
\* previous event when that was a pointer press or move).
C4_PanOnlyTranslates ==
  [][ (panning /\ ev'.kind = "mouseMove") =>
        /\ annotations' = annotations
        /\ selectedIds' = selectedIds
        /\ history' = history
        /\ transform'.scale = transform.scale
        /\ ev.kind \in {"mouseDown", "mouseMove"} =>
              /\ transform'.x - transform.x = ev'.clientX - ev.clientX
              /\ transform'.y - transform.y = ev'.clientY - ev.clientY ]_vars

\* a toolbar click or a tool shortcut key
IsToolEvent(e) ==
  \/ e.kind = "setTool"
  \/ /\ e.kind = "keyDown" /\ ~e.inInput
     /\ \E name \in {"TOOL_SELECT", "TOOL_PAN", "TOOL_RECTANGLE", "TOOL_POLYGON"} :
          isShortcutPressed(e, keyMap[name])
\* the Escape key, pressed outside a text field
IsEscapeKey(e) == e.kind = "keyDown" /\ ~e.inInput /\ isShortcutPressed(e, keyMap.CANCEL)
\* the tool was switched by a toolbar click or a shortcut key, or Escape was pressed
ToolSwitchOrEscape == (IsToolEvent(ev') /\ currentTool' # currentTool) \/ IsEscapeKey(ev')

\* C5: right after a tool switch, and right after the Escape key, the pending
\* polygon point list is empty and the pending rectangle anchor is null.
C5_PendingCleared ==
  [][ ToolSwitchOrEscape => (pendingPoly' = << >> /\ IsNull(pendingRectStart')) ]_vars

\* C6: right after a tool switch, the Escape key or a pointer-up, the selection
\* is empty and activeVertex is null.
C6_SelectionReset ==
  [][ (ToolSwitchOrEscape \/ ev'.kind = "mouseUp") =>
        (selectedIds' = << >> /\ IsNull(activeVertex')) ]_vars

\* a step leaves the locked annotations in the collection, with their points
LockedKept ==
  \A i \in 1..Len(annotations) :
    annotations[i].locked =>
      \E j \in 1..Len(annotations') :
        /\ annotations'[j].id = annotations[i].id
        /\ annotations'[j].points = annotations[i].points

\* C7: no pointer event, key other than undo and redo, sidebar click, align or
\* distribute changes the points of, or removes, an annotation that is locked
\* when the event arrives.
C7_LockedImmutable == [][ (~IsUndoKey(ev') /\ ~IsRedoKey(ev')) => LockedKept ]_vars

\* C7 happens: a nudge was keyed while a locked annotation was in the
\* collection; it moved the selected annotation and left the locked one
C7_Witness ==
  /\ ev.kind = "keyDown" /\ isShortcutPressed(ev, keyMap.NUDGE_LEFT)
  /\ \E i \in 1..Len(annotations) : annotations[i].locked
  /\ Len(history.past) > 0
  /\ Last(history.past).action = "nudge"
  /\ \E i \in 1..Len(annotations) :
       /\ annotations[i].locked
       /\ Last(history.past).annotations[i].points = annotations[i].points
  /\ \E i \in 1..Len(annotations) :
       /\ ~annotations[i].locked
       /\ Last(history.past).annotations[i].points # annotations[i].points

\* no selected annotation is locked
NoLockedSelected == ~hasLocked(State)

\* C9: in every reachable state every rectangle has exactly 2 points and
\* every polygon has at least 3 points.
C9_PointCounts ==
  \A i \in 1..Len(annotations) :
    /\ annotations[i].type = "rectangle" => Len(annotations[i].points) = 2
    /\ annotations[i].type = "polygon" => Len(annotations[i].points) >= 3

\* C9 happens: a vertex of a polygon with 3 points was alt-clicked, and the
\* polygon still has its 3 points
C9_Witness ==
  /\ ev.kind = "mouseDown" /\ ev.altKey /\ ev.button = 0
  /\ currentTool = "select"
  /\ Len(selectedIds) = 1
  /\ \E i \in 1..Len(annotations) :
       /\ annotations[i].id = selectedIds[1]
       /\ annotations[i].type = "polygon"
       /\ Len(annotations[i].points) = 3
       /\ \E k \in 1..3 :
            isPointNearVertex(annotations[i].points[k], getRelativeImagePos(State, ev),
                              OverScale(VertexThreshold, transform.scale))

\* C10: every wheel event sets the scale to the old scale times 1.1 or 0.9,
\* clamped to [0.1, 50]; so after a wheel event the scale lies in [0.1, 50].
C10_WheelScaleClamped ==
  [][ ev'.kind = "wheel" =>
        LET factor == IF ev'.arg = "in" THEN SU + WheelPct ELSE SU - WheelPct
            scaled == RoundDiv(transform.scale * factor, SU)
        IN /\ transform'.scale >= MinScalePct
           /\ transform'.scale <= MaxScalePct
           /\ transform'.scale =
                 (IF scaled < MinScalePct THEN MinScalePct
                  ELSE IF scaled > MaxScalePct THEN MaxScalePct ELSE scaled) ]_vars

\* C10 happens: the view was beyond 50 (zoom keys took it there), and a
\* wheel event brought the scale to the upper limit
C10_Witness ==
  /\ ev.kind = "wheel"
  /\ prevEv.kind = "keyDown" /\ prevEv.key = "="
  /\ transform.scale = MaxScalePct

\* C11: in every reachable state the scale of the view lies in [0.1, 50],
\* whichever of the wheel, the zoom keys, the reset and the image load set it.
C11_ScaleInRange == transform.scale >= MinScalePct /\ transform.scale <= MaxScalePct

\* image points p and q are the same point up to the resolution of the
\* arithmetic at scale: they differ by no more than one length unit of the
\* image plus one length unit of the screen
SamePoint(p, q, scale) ==
  /\ Abs(p.x - q.x) * scale <= SU + scale
  /\ Abs(p.y - q.y) * scale <= SU + scale

\* C12: a wheel event at pointer position m leaves the image point under m
\* where it was: screenToImage(m, T') is screenToImage(m, T), also when the new
\* scale is clamped.
C12_WheelAnchorKept ==
  [][ ev'.kind = "wheel" =>
        LET m == getMousePos(ev')
        IN SamePoint(screenToImage(m.x, m.y, transform'),
                     screenToImage(m.x, m.y, transform), transform'.scale) ]_vars

\* C12 happens: a wheel event was clamped at the lower limit and moved the
\* translation of the view
C12_Witness ==
  /\ ev.kind = "wheel" /\ ev.arg = "out"
  /\ prevEv.kind = "wheel"
  /\ transform.scale = MinScalePct
  /\ transform.x # T0(Viewport1).x

\* ------------------------------------------------------------ geometry on its own
\* The geometry functions are tried on inputs drawn from bounded sets: the app
\* stands still, with an image loaded, and probe holds the value under trial.
MaxProbeOps == 2

AppIdle ==
  /\ Loaded(handleImageUpload(Viewport1.maxWidth, Viewport1.maxHeight))
  /\ script = << >>
  /\ ev = NoEvent
  /\ prevEv = NoEvent
  /\ atPointerDown = << >>
  /\ panning = FALSE
  /\ nEvents = 0

AppUnchanged ==
  UNCHANGED << annotations, selectedIds, currentTool, transform, history, labelPopup,
               isDragging, dragStart, currentMouseImagePos, hoveredEdge, pendingPoly,
               pendingRectStart, activeVertex, isSpacePressed, now, mouse, viewport,
               script, ev, prevEv, atPointerDown, panning, nEvents >>

\* points in length units (eighths of a pixel), on and off the pixel grid
ProbePoints ==
  { [x |-> 0, y |-> 0], [x |-> 3, y |-> 5], Pt(10, 0), Pt(20, 41), [x |-> 0 - 37, y |-> 164],
    Pt(90, 90) }
\* transforms with scales from 0.1 to 50
ProbeTransforms ==
  { [scale |-> sc, x |-> o, y |-> 0 - o] : sc \in {MinScalePct, 90, SU, 120, 250, MaxScalePct},
                                         o \in {0, 57, 0 - 360} }

InitTransform ==
  /\ AppIdle
  /\ \E t \in ProbeTransforms, p \in ProbePoints :
       probe = [kind |-> "point", t |-> t, orig |-> p, cur |-> p, ops |-> << >>]

ToScreen ==
  /\ Len(probe.ops) < MaxProbeOps
  /\ probe' = [probe EXCEPT !.cur = imageToScreen(probe.cur.x, probe.cur.y, probe.t),
                            !.ops = Append(probe.ops, "toScreen")]
  /\ AppUnchanged

ToImage ==
  /\ Len(probe.ops) < MaxProbeOps
  /\ probe' = [probe EXCEPT !.cur = screenToImage(probe.cur.x, probe.cur.y, probe.t),
                            !.ops = Append(probe.ops, "toImage")]
  /\ AppUnchanged

NextTransform == ToScreen \/ ToImage

SpecTransform == InitTransform /\ [][NextTransform]_vars

\* screen points p and q are the same point up to the resolution of the
\* arithmetic at scale: they differ by no more than one length unit of the
\* screen plus one length unit of the image
SameScreenPoint(p, q, scale) ==
  /\ Abs(p.x - q.x) * SU <= SU + scale
  /\ Abs(p.y - q.y) * SU <= SU + scale

RECURSIVE shoelace(_, _)
shoelace(points, k) ==
  IF k = 0 THEN 0
  ELSE LET n == Len(points)
           i == k
           j == (k % n) + 1
       IN shoelace(points, k - 1) + points[i].x * points[j].y - points[j].x * points[i].y

\* a faulty area, which keeps the sign of the sum (C14 must tell it from
\* calculatePolygonArea)
calculatePolygonAreaSigned(points) == shoelace(points, Len(points))

\* Math.abs(area) / 2, counted in halves of a square length unit
calculatePolygonArea(points) == Abs(shoelace(points, Len(points)))

Reversed(seq) == [i \in 1..Len(seq) |-> seq[Len(seq) + 1 - i]]

\* point lists of 0 to 5 points: convex, concave, self-intersecting, degenerate
ProbePolygons ==
  { << >>,
    << Pt(3, 4) >>,
    << Pt(0, 0), Pt(7, 5) >>,
    << Pt(0, 0), Pt(10, 0), Pt(10, 10) >>,
    << Pt(0, 0), Pt(20, 0), Pt(20, 20), Pt(0, 20) >>,
    << Pt(0, 0), Pt(20, 20), Pt(20, 0), Pt(0, 20) >>,
    << [x |-> 1, y |-> 2], [x |-> 30, y |-> 0 - 7], [x |-> 11, y |-> 9], [x |-> 45, y |-> 33],
       [x |-> 0 - 5, y |-> 40] >>,
    << Pt(0, 0), Pt(30, 0), Pt(30, 30), Pt(15, 10), Pt(0, 30) >> }
ProbeOffsets == { <<1, 0>>, <<0 - 3, 7>>, <<Px(25), Px(0 - 40)>>, <<1000, 1000>> }

InitArea ==
  /\ AppIdle
  /\ \E pts \in ProbePolygons :
       probe = [kind |-> "polygon", orig |-> pts, cur |-> pts, ops |-> << >>]

Translate ==
  /\ Len(probe.ops) < MaxProbeOps
  /\ \E d \in ProbeOffsets :
       probe' = [probe EXCEPT !.cur = MovePoints(probe.cur, d[1], d[2]),
                              !.ops = Append(probe.ops, "translate")]
  /\ AppUnchanged

Reverse ==
  /\ Len(probe.ops) < MaxProbeOps
  /\ probe' = [probe EXCEPT !.cur = Reversed(probe.cur), !.ops = Append(probe.ops, "reverse")]
  /\ AppUnchanged

NextArea == Translate \/ Reverse

SpecArea == InitArea /\ [][NextArea]_vars

\* C14: the area of a point list is the area of the list with all its points
\* translated by one offset, and of the list in reverse order.
C14_AreaInvariant == calculatePolygonArea(probe.cur) = calculatePolygonArea(probe.orig)

\* C14 happens: a point list of non-zero area was translated and reversed
C14_Witness ==
  /\ probe.ops = << "translate", "reverse" >>
  /\ probe.cur # probe.orig
  /\ calculatePolygonArea(probe.orig) > 0
  /\ calculatePolygonArea(probe.cur) = calculatePolygonArea(probe.orig)

\* ------------------------------------------------------------ arranging shapes
\* Scenes for align and distribute: two rectangles (the second drawn from its
\* lower right corner, so that its points are not in min/max order), a
\* triangle and a small rectangle, with two, three or all four selected.
MaxArrangeEvents == 2

FourShapes(vp) ==
  DrawRect(0, 0, 20, 20, vp)
    \o << Key("p") >> \o Click(10, 30, vp) \o Click(20, 30, vp) \o Click(20, 50, vp)
    \o Click(10, 30, vp)
    \o DrawRect(70, 70, 50, 50, vp) \o DrawRect(40, 0, 50, 10, vp) \o << Key("v") >>
ScriptArrangeTwo(vp) ==
  FourShapes(vp) \o Click(10, 10, vp) \o CtrlClick(60, 60, vp) \o << Leave >>
ScriptArrangeThree(vp) ==
  FourShapes(vp) \o Click(10, 10, vp) \o CtrlClick(17, 40, vp) \o CtrlClick(60, 60, vp)
    \o << Leave >>
ScriptArrangeFour(vp) ==
  FourShapes(vp) \o Click(10, 10, vp) \o CtrlClick(17, 40, vp) \o CtrlClick(60, 60, vp)
    \o CtrlClick(45, 5, vp) \o << Leave >>
ArrangeScripts ==
  { ScriptArrangeTwo(Viewport1), ScriptArrangeThree(Viewport1), ScriptArrangeFour(Viewport1) }

InitArrange ==
  /\ Loaded(handleImageUpload(Viewport1.maxWidth, Viewport1.maxHeight))
  /\ script \in ArrangeScripts
  /\ ev = NoEvent
  /\ prevEv = NoEvent
  /\ atPointerDown = << >>
  /\ panning = FALSE
  /\ nEvents = 0
  /\ probe = NoProbe

\* an align or distribute event e after the script
HandleArrange(e) ==
  /\ script = << >>
  /\ nEvents < MaxArrangeEvents
  /\ Allowed(State, e)
  /\ Becomes(Step(State, e))
  /\ Logged(e)
  /\ nEvents' = nEvents + 1
  /\ UNCHANGED script

AlignShapes ==
  \E type \in {"left", "center", "right", "top", "middle", "bottom"} :
    HandleArrange(UiEv("align", 0, type))
DistributeShapes ==
  \E type \in {"horizontal", "vertical"} : HandleArrange(UiEv("distribute", 0, type))

NextArrange == Replay \/ AlignShapes \/ DistributeShapes

SpecArrange == InitArrange /\ [][NextArrange]_vars

SetMin(S) == CHOOSE m \in S : \A n \in S : m <= n
SetMax(S) == CHOOSE m \in S : \A n \in S : n <= m
\* the positions in the collection of the selected annotations
SelectedAt == {i \in 1..Len(annotations) : Includes(selectedIds, annotations[i].id)}
\* bounding boxes, from the points
BoxOf(ann) ==
  [minX |-> SetMin({ann.points[k].x : k \in 1..Len(ann.points)}),
   maxX |-> SetMax({ann.points[k].x : k \in 1..Len(ann.points)}),
   minY |-> SetMin({ann.points[k].y : k \in 1..Len(ann.points)}),
   maxY |-> SetMax({ann.points[k].y : k \in 1..Len(ann.points)})]
UnionBox ==
  [minX |-> SetMin({BoxOf(annotations[i]).minX : i \in SelectedAt}),
   maxX |-> SetMax({BoxOf(annotations[i]).maxX : i \in SelectedAt}),
   minY |-> SetMin({BoxOf(annotations[i]).minY : i \in SelectedAt}),
   maxY |-> SetMax({BoxOf(annotations[i]).maxY : i \in SelectedAt})]
\* b is a with all its points moved by one common offset, and nothing else changed
IsTranslated(a, b) ==
  /\ Len(b.points) = Len(a.points)
  /\ b = [a EXCEPT !.points = b.points]
  /\ \A k \in 1..Len(a.points) :
       /\ b.points[k].x - a.points[k].x = b.points[1].x - a.points[1].x
       /\ b.points[k].y - a.points[k].y = b.points[1].y - a.points[1].y
\* centre c2 (counted in halves) is centre d2 up to the rounding of a half unit
SameCentre(c2, d2) == Abs(c2 - d2) <= 1

\* what align of the given type asks of a shape's new box b in a group of box g
Aligned(type, b, g) ==
  CASE type = "left" -> b.minX = g.minX
    [] type = "right" -> b.maxX = g.maxX
    [] type = "top" -> b.minY = g.minY
    [] type = "bottom" -> b.maxY = g.maxY
    [] type = "center" -> SameCentre(b.minX + b.maxX, g.minX + g.maxX)
    [] type = "middle" -> SameCentre(b.minY + b.maxY, g.minY + g.maxY)

\* C15: align on a selection of at least 2 shapes translates every selected
\* shape so that its edge (left, right, top, bottom) or its centre (center,
\* middle) is that of the union box of the selection before the operation,
\* and leaves the unselected annotations as they are.
C15_AlignMatchesGroup ==
  [][ (ev'.kind = "align" /\ Cardinality(SelectedAt) >= 2) =>
        /\ Len(annotations') = Len(annotations)
        /\ \A i \in 1..Len(annotations) :
             IF i \in SelectedAt
             THEN /\ IsTranslated(annotations[i], annotations'[i])
                  /\ Aligned(ev'.arg, BoxOf(annotations'[i]), UnionBox)
             ELSE annotations'[i] = annotations[i] ]_vars

\* C15 happens: "align left" moved a selected shape, and every selected
\* shape now has the minX of the group while an unselected one does not
C15_Witness ==
  /\ ev.kind = "align" /\ ev.arg = "left"
  /\ Cardinality(SelectedAt) >= 2
  /\ Len(history.past) > 0
  /\ Last(history.past).action = "align"
  /\ Last(history.past).annotations # annotations
  /\ \A i \in SelectedAt : BoxOf(annotations[i]).minX = UnionBox.minX
  /\ \E i \in 1..Len(annotations) :
       i \notin SelectedAt /\ BoxOf(annotations[i]).minX # UnionBox.minX

\* C16: distribute on a selection of n >= 3 shapes, sorted by the centre of
\* their boxes along the axis, puts the centre of the i-th shape (i from 0) at
\* first.center + i * (last.center - first.center) / (n - 1); the first and
\* the last shape do not move, no coordinate on the other axis changes, and
\* the unselected annotations stay as they are.
C16_DistributeEven ==
  [][ (ev'.kind = "distribute" /\ Cardinality(SelectedAt) >= 3) =>
        LET horizontal == ev'.arg = "horizontal"
            Centre2(a) == IF horizontal THEN BoxOf(a).minX + BoxOf(a).maxX
                          ELSE BoxOf(a).minY + BoxOf(a).maxY
            n1 == Cardinality(SelectedAt) - 1
            Rank(i) == Cardinality({j \in SelectedAt :
                          \/ Centre2(annotations[j]) < Centre2(annotations[i])
                          \/ Centre2(annotations[j]) = Centre2(annotations[i]) /\ j < i})
            first2 == SetMin({Centre2(annotations[i]) : i \in SelectedAt})
            last2 == SetMax({Centre2(annotations[i]) : i \in SelectedAt})
        IN /\ Len(annotations') = Len(annotations)
           /\ \A i \in 1..Len(annotations) :
                IF i \in SelectedAt
                THEN /\ IsTranslated(annotations[i], annotations'[i])
                     /\ IF horizontal
                        THEN annotations'[i].points[1].y = annotations[i].points[1].y
                        ELSE annotations'[i].points[1].x = annotations[i].points[1].x
                     /\ Abs(Centre2(annotations'[i]) * n1
                              - (first2 * n1 + Rank(i) * (last2 - first2))) <= n1
                     /\ Rank(i) \in {0, n1} => annotations'[i] = annotations[i]
                ELSE annotations'[i] = annotations[i] ]_vars

\* C16 happens: "distribute horizontal" on three shapes moved the middle one,
\* whose centre is now half way between the centres of the other two
C16_Witness ==
  /\ ev.kind = "distribute" /\ ev.arg = "horizontal"
  /\ Cardinality(SelectedAt) = 3
  /\ Len(history.past) > 0
  /\ Last(history.past).action = "distribute"
  /\ Last(history.past).annotations # annotations
  /\ \E i \in SelectedAt :
       /\ Last(history.past).annotations[i].points # annotations[i].points
       /\ 2 * (BoxOf(annotations[i]).minX + BoxOf(annotations[i]).maxX)
            = SetMin({BoxOf(annotations[j]).minX + BoxOf(annotations[j]).maxX : j \in SelectedAt})
              + SetMax({BoxOf(annotations[j]).minX + BoxOf(annotations[j]).maxX : j \in SelectedAt})

\* ------------------------------------------------------------ drawing
\* Scenes for drawing: the polygon tool with no, two or three pending points
\* and the rectangle tool, at scale 1 and at scale 2; then pointer events
\* only.  The pointer is pressed and released where it is, which is where the
\* last pointer event was.
MaxDrawEvents == 3

ScriptPolygonTool(vp) == << Key("p"), Move(0, 0, vp) >>
ScriptPendingThree(vp) ==
  << Key("p") >> \o Click(0, 0, vp) \o Click(20, 0, vp) \o Click(20, 20, vp)
    \o << Move(20, 20, vp) >>
ScriptRectangleTool(vp) == << Key("r"), Move(0, 0, vp) >>
ScriptRectangleAgain(vp) == DrawRect(30, 10, 50, 40, vp) \o << Key("r"), Move(80, 80, vp) >>
DrawScripts(vp) ==
  { ScriptPolygonTool(vp), ScriptPendingThree(vp), ScriptRectangleTool(vp),
    ScriptRectangleAgain(vp) }

InitDraw ==
  /\ \E vp \in {Viewport1, Viewport2} :
       /\ Loaded(handleImageUpload(vp.maxWidth, vp.maxHeight))
       /\ script \in DrawScripts(vp)
  /\ ev = NoEvent
  /\ prevEv = NoEvent
  /\ atPointerDown = << >>
  /\ panning = FALSE
  /\ nEvents = 0
  /\ probe = NoProbe

\* a pointer event e after the script
HandleDraw(e) ==
  /\ script = << >>
  /\ nEvents < MaxDrawEvents
  /\ Allowed(State, e)
  /\ Becomes(Step(State, e))
  /\ Logged(e)
  /\ nEvents' = nEvents + 1
  /\ UNCHANGED script

\* image points (in pixels) the pointer is moved to: around the closing and
\* the commit thresholds, inside the image, and off the image in the padding
\* (the canvas shows the image coordinates from -5 to 95 at both scales)
DrawPts ==
  { <<0, 0>>, <<0, 1>>, <<1, 1>>, <<2, 2>>, <<5, 5>>, <<7, 0>>, <<8, 0>>, <<14, 0>>,
    <<15, 0>>, <<20, 20>>, <<94, 60>>, <<0 - 4, 0 - 4>> }
\* where the pointer is: the position of the last pointer event
PointerAt == [x |-> ev.clientX, y |-> ev.clientY]

DrawMove ==
  \E p \in DrawPts :
    HandleDraw(MouseEv("mouseMove", ClientAt(p[1], p[2], T0(Val(viewport))), 0, ""))
DrawDown == HandleDraw(MouseEv("mouseDown", PointerAt, 0, ""))
DrawUp == HandleDraw(MouseEv("mouseUp", PointerAt, 0, ""))

NextDraw == Replay \/ DrawMove \/ DrawDown \/ DrawUp

SpecDraw == InitDraw /\ [][NextDraw]_vars

\* the image position of the pointer event of the step
PointerPos == getRelativeImagePos(State, ev')

\* C17: with the polygon tool (left button, space key not held), a
\* pointer-down made while at least 3 points are pending and strictly within
\* 15 / scale of the first pending point commits one new polygon whose points
\* are the pending list, without the closing click, and empties the pending
\* list; every other pointer-down appends the pointer position to the pending
\* list and leaves the collection as it is.
C17_PolygonCloseOrAppend ==
  [][ (ev'.kind = "mouseDown" /\ ev'.button = 0 /\ currentTool = "polygon" /\ ~isSpacePressed) =>
        LET threshold == OverScale(CloseThreshold, transform.scale)
        IN IF Len(pendingPoly) >= 3
              /\ DistSq(PointerPos, pendingPoly[1]) < threshold * threshold
           THEN /\ Len(annotations') = Len(annotations) + 1
                /\ SubSeq(annotations', 1, Len(annotations)) = annotations
                /\ Last(annotations').type = "polygon"
                /\ Last(annotations').points = pendingPoly
                /\ pendingPoly' = << >>
           ELSE /\ pendingPoly' = Append(pendingPoly, PointerPos)
                /\ annotations' = annotations ]_vars

\* C17 happens: at scale 2 a pointer-down 7 pixels from the first of three
\* pending points committed the polygon with exactly those three points
C17_Witness ==
  /\ ev.kind = "mouseDown"
  /\ transform.scale = 2 * SU
  /\ pendingPoly = << >>
  /\ Len(annotations) > 0
  /\ Last(annotations).type = "polygon"
  /\ Len(Last(annotations).points) = 3
  /\ getRelativeImagePos(State, ev) = Pt(7, 0)
  /\ Last(annotations).points[1] = Pt(0, 0)

\* a pointer-down with the rectangle tool (left button, space key not held)
\* records the pointer position as the anchor and leaves the collection
RectangleAnchored ==
  (ev'.kind = "mouseDown" /\ ev'.button = 0 /\ currentTool = "rectangle" /\ ~isSpacePressed) =>
    (pendingRectStart' = Some(PointerPos) /\ annotations' = annotations)

\* the image position of the pointer when it is released: that of the pointer
\* event before the release (a press or a move)
ReleasePos == getRelativeImagePos(State, ev)

\* a pointer-up with the rectangle tool and anchor a, taken to be at position
\* r: the rectangle [a, r] is committed iff |r.x - a.x| > 1 and
\* |r.y - a.y| > 1, and else the collection stays as it is
RectangleReleased(r) ==
  (/\ ev'.kind = "mouseUp" /\ ev.kind \in {"mouseDown", "mouseMove"}
   /\ currentTool = "rectangle" /\ ~IsNull(pendingRectStart)) =>
    LET a == Val(pendingRectStart)
    IN IF Abs(r.x - a.x) > Px(1) /\ Abs(r.y - a.y) > Px(1)
       THEN /\ Len(annotations') = Len(annotations) + 1
            /\ SubSeq(annotations', 1, Len(annotations)) = annotations
            /\ Last(annotations').type = "rectangle"
            /\ Last(annotations').points = << a, r >>
       ELSE annotations' = annotations

\* C18 as stated: a pointer-down at a and a pointer-up at r commit the
\* rectangle [a, r] iff |r.x - a.x| > 1 and |r.y - a.y| > 1, r being the
\* position of the pointer at the pointer-up.
C18_RectangleFromRelease == [][ RectangleAnchored /\ RectangleReleased(ReleasePos) ]_vars

\* C19: after a pointer-up that ends a rectangle draw (an anchor was pending
\* with the rectangle tool), committed or discarded, the anchor is null and
\* the current tool is select; and after any pointer-up the anchor is null.
C19_AnchorClearedToolSelect ==
  [][ ev'.kind = "mouseUp" =>
        /\ IsNull(pendingRectStart')
        /\ (currentTool = "rectangle" /\ ~IsNull(pendingRectStart)) => currentTool' = "select" ]_vars

\* ------------------------------------------------------------ nudging
\* Scenes with a selection (and two with a pending draw), at the fitted scales
\* 1.0 and 2.0, followed by arrow keys and zoom keys.
MaxNudgeEvents == 3

NudgeScripts(vp) ==
  { ScriptRectSelected(vp), ScriptTwoSelected(vp), ScriptLocked(vp),
    ScriptPendingRect(vp), ScriptPendingPoly(vp) }

InitNudge ==
  /\ \E vp \in {Viewport1, Viewport2} :
       /\ Loaded(handleImageUpload(vp.maxWidth, vp.maxHeight))
       /\ script \in NudgeScripts(vp)
  /\ ev = NoEvent
  /\ prevEv = NoEvent
  /\ atPointerDown = << >>
  /\ panning = FALSE
  /\ nEvents = 0
  /\ probe = NoProbe

\* a key e after the script
HandleNudge(e) ==
  /\ script = << >>
  /\ nEvents < MaxNudgeEvents
  /\ Allowed(State, e)
  /\ Becomes(Step(State, e))
  /\ Logged(e)
  /\ nEvents' = nEvents + 1
  /\ UNCHANGED script

ArrowKey ==
  \E k \in {"arrowleft", "arrowright", "arrowup", "arrowdown"}, shift \in BOOLEAN :
    HandleNudge(KeyEv(k, FALSE, shift))
ZoomKey == \E k \in {"=", "-"} : HandleNudge(Key(k))

NextNudge == Replay \/ ArrowKey \/ ZoomKey

SpecNudge == InitNudge /\ [][NextNudge]_vars

\* the unit direction of a nudge binding
NudgeNames == {"NUDGE_LEFT", "NUDGE_RIGHT", "NUDGE_UP", "NUDGE_DOWN"}
UnitDirection(name) ==
  CASE name = "NUDGE_LEFT" -> [dx |-> 0 - 1, dy |-> 0]
    [] name = "NUDGE_RIGHT" -> [dx |-> 1, dy |-> 0]
    [] name = "NUDGE_UP" -> [dx |-> 0, dy |-> 0 - 1]
    [] name = "NUDGE_DOWN" -> [dx |-> 0, dy |-> 1]

\* d is n / scale pixels, to the resolution of the coordinates
IsStepOverScale(d, n, scale) == 2 * Abs(d * scale - n * LU * SU) <= scale

\* annotation b is annotation a with (dx / scale, dy / scale) added to every point
NudgedBy(a, b, dx, dy, scale) ==
  /\ b = [a EXCEPT !.points = b.points]
  /\ Len(b.points) = Len(a.points)
  /\ \A k \in 1..Len(a.points) :
       /\ IsStepOverScale(b.points[k].x - a.points[k].x, dx, scale)
       /\ IsStepOverScale(b.points[k].y - a.points[k].y, dy, scale)

\* C20: with a non-empty selection, no active vertex, no pending draw and no
\* locked shape selected, a nudge key press at zoom s adds (dx / s, dy / s),
\* (dx, dy) being the unit direction of the key, to every point of every
\* selected annotation, and leaves the unselected annotations as they are.
C20_NudgeStepOverZoom ==
  [][ \A name \in NudgeNames :
        (/\ ev'.kind = "keyDown" /\ ~ev'.inInput /\ isShortcutPressed(ev', keyMap[name])
         /\ Len(selectedIds) > 0 /\ IsNull(activeVertex)
         /\ Len(pendingPoly) = 0 /\ IsNull(pendingRectStart)
         /\ ~hasLocked(State)) =>
          /\ Len(annotations') = Len(annotations)
          /\ \A i \in 1..Len(annotations) :
               IF Includes(selectedIds, annotations[i].id)
               THEN NudgedBy(annotations[i], annotations'[i], UnitDirection(name).dx,
                             UnitDirection(name).dy, transform.scale)
               ELSE annotations'[i] = annotations[i] ]_vars

\* C20 happens: at zoom 2.0 a nudge to the left has moved the points of the
\* selected annotation by (-0.5, 0) and has left an unselected one in place
C20_Witness ==
  /\ ev.kind = "keyDown" /\ isShortcutPressed(ev, keyMap.NUDGE_LEFT)
  /\ transform.scale = 2 * SU
  /\ Len(history.past) > 0
  /\ Last(history.past).action = "nudge"
  /\ Len(Last(history.past).annotations) = Len(annotations)
  /\ \E i \in 1..Len(annotations) :
       /\ Includes(selectedIds, annotations[i].id)
       /\ \A k \in 1..Len(annotations[i].points) :
            /\ 2 * (annotations[i].points[k].x - Last(history.past).annotations[i].points[k].x) = 0 - Px(1)
            /\ annotations[i].points[k].y = Last(history.past).annotations[i].points[k].y
  /\ \E i \in 1..Len(annotations) :
       /\ ~Includes(selectedIds, annotations[i].id)
       /\ annotations[i] = Last(history.past).annotations[i]

\* the arrow key of a nudge binding
ArrowOf(name) == keyMap[name].key

\* C21: with the default key map, an arrow key pressed while Shift is held
\* (selection non-empty, no active vertex, no pending draw, no locked shape
\* selected) moves every selected annotation by 10 / scale along the axis of
\* the key, ten times the step of the key alone.
C21_ShiftNudgeTenfold ==
  [][ \A name \in NudgeNames :
        (/\ ev'.kind = "keyDown" /\ ~ev'.inInput
         /\ ev'.key = ArrowOf(name) /\ ev'.shiftKey /\ ~ev'.ctrlKey /\ ~ev'.altKey
         /\ Len(selectedIds) > 0 /\ IsNull(activeVertex)
         /\ Len(pendingPoly) = 0 /\ IsNull(pendingRectStart)
         /\ ~hasLocked(State)) =>
          /\ Len(annotations') = Len(annotations)
          /\ \A i \in 1..Len(annotations) :
               Includes(selectedIds, annotations[i].id) =>
                 NudgedBy(annotations[i], annotations'[i],
                          NudgeAccel * UnitDirection(name).dx,
                          NudgeAccel * UnitDirection(name).dy, transform.scale) ]_vars

\* ------------------------------------------------------------ history
\* Scenes with none, one or two history entries, followed by undo and redo
\* keys, editing keys and pointer events.
MaxHistoryEvents == 3

HistoryScripts(vp) ==
  { ScriptEmpty(vp), ScriptRectSelected(vp), ScriptNudged(vp), ScriptRectangleAgain(vp) }

InitHistory ==
  /\ Loaded(handleImageUpload(Viewport1.maxWidth, Viewport1.maxHeight))
  /\ script \in HistoryScripts(Viewport1)
  /\ ev = NoEvent
  /\ prevEv = NoEvent
  /\ atPointerDown = << >>
  /\ panning = FALSE
  /\ nEvents = 0
  /\ probe = NoProbe

\* an event e after the script
HandleHistory(e) ==
  /\ script = << >>
  /\ nEvents < MaxHistoryEvents
  /\ Allowed(State, e)
  /\ Becomes(Step(State, e))
  /\ Logged(e)
  /\ nEvents' = nEvents + 1
  /\ UNCHANGED script

UndoKey == HandleHistory(KeyEv("z", TRUE, FALSE))
RedoKey == HandleHistory(KeyEv("z", TRUE, TRUE))
EditKey == \E k \in {"arrowright", "delete", "r"} : HandleHistory(Key(k))
HistoryPts == { <<10, 10>>, <<40, 30>>, <<80, 80>> }
MoveTo == \E p \in HistoryPts : HandleHistory(Move(p[1], p[2], Viewport1))
PressAt == \E p \in HistoryPts : HandleHistory(Down(p[1], p[2], Viewport1))
Release == HandleHistory(Up)

NextHistory == Replay \/ UndoKey \/ RedoKey \/ EditKey \/ MoveTo \/ PressAt \/ Release

SpecHistory == InitHistory /\ [][NextHistory]_vars

\* the step is a call of snapshotHistory and nothing else in the App state:
\* a pointer-down with the rectangle tool (left button, space key not held)
IsSnapshotOnly(e) ==
  e.kind = "mouseDown" /\ e.button = 0 /\ currentTool = "rectangle" /\ ~isSpacePressed

\* C22: a call of snapshotHistory (every change of the history that is not an
\* undo or a redo) appends exactly one entry, holding the collection as it is
\* at the call and the label, to the end of past and empties future; the call
\* by itself changes neither the collection nor the selection.
C22_SnapshotAppendsOne ==
  [][ /\ (~IsUndoKey(ev') /\ ~IsRedoKey(ev') /\ history' # history) =>
          /\ Len(history'.past) = Len(history.past) + 1
          /\ SubSeq(history'.past, 1, Len(history.past)) = history.past
          /\ Last(history'.past).annotations = annotations
          /\ history'.future = << >>
      /\ IsSnapshotOnly(ev') =>
          /\ history' = [past |-> Append(history.past,
                                         [annotations |-> annotations,
                                          action |-> "createRect"]),
                         future |-> << >>]
          /\ annotations' = annotations
          /\ selectedIds' = selectedIds ]_vars

\* C22 happens: a snapshot was taken right after an undo, while there was an
\* entry to redo; it is the newest entry of past and future is empty
C22_Witness ==
  /\ IsUndoKey(prevEv)
  /\ ev.kind = "mouseDown" /\ currentTool = "rectangle" /\ ~IsNull(pendingRectStart)
  /\ history.future = << >>
  /\ Len(history.past) > 0
  /\ Last(history.past) = [annotations |-> annotations, action |-> "createRect"]

\* C23: an undo with a non-empty past removes the newest entry e of past, puts
\* {the collection before the undo, e.action} in front of future, sets the
\* collection to e's snapshot and empties the selection; a redo with a
\* non-empty future removes the first entry n of future, appends {the
\* collection before the redo, n.action} to past, sets the collection to n's
\* snapshot and empties the selection.
C23_UndoRedoMoveEntries ==
  [][ /\ (IsUndoKey(ev') /\ Len(history.past) > 0) =>
          LET e == Last(history.past)
          IN /\ history'.past = SubSeq(history.past, 1, Len(history.past) - 1)
             /\ history'.future =
                  << [annotations |-> annotations, action |-> e.action] >> \o history.future
             /\ annotations' = e.annotations
             /\ selectedIds' = << >>
      /\ (IsRedoKey(ev') /\ Len(history.future) > 0) =>
          LET n == Head(history.future)
          IN /\ history'.future = Tail(history.future)
             /\ history'.past =
                  Append(history.past, [annotations |-> annotations, action |-> n.action])
             /\ annotations' = n.annotations
             /\ selectedIds' = << >> ]_vars

\* C23 happens: a nudge with a selection, its undo and its redo were keyed;
\* the nudged collection is back, the entry of the nudge is the newest of
\* past again and the selection is empty
C23_Witness ==
  /\ IsUndoKey(prevEv)
  /\ IsRedoKey(ev)
  /\ selectedIds = << >>
  /\ history.future = << >>
  /\ Len(history.past) > 1
  /\ Last(history.past).action = "nudge"
  /\ Last(history.past).annotations # annotations

\* C24: an undo with an empty past and a redo with an empty future are no-ops:
\* the collection, the selection, past and future stay as they are.
C24_EmptyStackNoOp ==
  [][ ((IsUndoKey(ev') /\ Len(history.past) = 0) \/ (IsRedoKey(ev') /\ Len(history.future) = 0)) =>
        /\ annotations' = annotations
        /\ selectedIds' = selectedIds
        /\ history' = history ]_vars

\* C24 happens: a redo was keyed with nothing to redo while an annotation was
\* selected, and the selection, which every effective redo empties, is still there
C24_Witness ==
  /\ IsRedoKey(ev)
  /\ history.future = << >>
  /\ Len(history.past) > 0
  /\ Len(selectedIds) > 0
  /\ Len(annotations) > 0

\* ------------------------------------------------------------ too few to arrange
\* Scenes with two or three shapes selected, followed by clicks on the buttons
\* of the batch panel and by the upload of another image.
MaxPanelEvents == 2

PanelScripts ==
  { ScriptTwoSelected(Viewport1), ScriptArrangeTwo(Viewport1), ScriptArrangeThree(Viewport1) }

InitPanel ==
  /\ Loaded(handleImageUpload(Viewport1.maxWidth, Viewport1.maxHeight))
  /\ script \in PanelScripts
  /\ ev = NoEvent
  /\ prevEv = NoEvent
  /\ atPointerDown = << >>
  /\ panning = FALSE
  /\ nEvents = 0
  /\ probe = NoProbe

\* the batch panel is rendered: selectedIds.length > 1
PanelShown == Len(selectedIds) > 1

\* a click e on a button of the batch panel, after the script
HandlePanel(e) ==
  /\ script = << >>
  /\ nEvents < MaxPanelEvents
  /\ PanelShown
  /\ Allowed(State, e)
  /\ Becomes(Step(State, e))
  /\ Logged(e)
  /\ nEvents' = nEvents + 1
  /\ UNCHANGED script

AlignButton == \E type \in {"left", "middle"} : HandlePanel(UiEv("align", 0, type))
DistributeButton ==
  \E type \in {"horizontal", "vertical"} : HandlePanel(UiEv("distribute", 0, type))
\* another image is chosen with the file input and has loaded
UploadImage ==
  /\ script = << >>
  /\ nEvents < MaxPanelEvents
  /\ mouse = "outside"
  /\ Becomes(imgOnload(State))
  /\ Logged(UiEv("upload", 0, ""))
  /\ nEvents' = nEvents + 1
  /\ UNCHANGED script

NextPanel == Replay \/ AlignButton \/ DistributeButton \/ UploadImage

SpecPanel == InitPanel /\ [][NextPanel]_vars

\* C25: an align with fewer than 2 selected annotations and a distribute with
\* fewer than 3 are no-ops: the collection, the selection, past and future
\* stay as they are.
C25_TooFewNoOp ==
  [][ (\/ ev'.kind = "align" /\ Len(SelectedAnns(State)) < 2
       \/ ev'.kind = "distribute" /\ Len(SelectedAnns(State)) < 3) =>
        /\ annotations' = annotations
        /\ selectedIds' = selectedIds
        /\ history' = history ]_vars

\* C25 happens: distribute was clicked with two shapes selected, and the
\* shapes, the selection and the history of the scene are as they were
C25_Witness ==
  /\ ev.kind = "distribute"
  /\ prevEv.kind = "mouseLeave"
  /\ Len(SelectedAnns(State)) = 2
  /\ history.future = << >>
  /\ Len(history.past) > 0
  /\ Last(history.past).action # "distribute"

\* the step is an align of at least 2, or a distribute of at least 3, selected
\* annotations
IsEffectiveArrange(e) ==
  \/ e.kind = "align" /\ Len(SelectedAnns(State)) >= 2
  \/ e.kind = "distribute" /\ Len(SelectedAnns(State)) >= 3

\* C26: an effective align or distribute pushes exactly one history entry,
\* holding the collection as it was before any shape was moved, so that one
\* undo puts every shape back where it was.
C26_ArrangeOneSnapshot ==
  [][ IsEffectiveArrange(ev') =>
        /\ history'.past = Append(history.past,
                                  [annotations |-> annotations, action |-> ev'.kind])
        /\ history'.future = << >>
        /\ handleUndo(StateNext).annotations = annotations ]_vars

\* C26 happens: an align or a distribute has moved at least two shapes, and
\* the newest entry of past, which an undo restores, has them all in their
\* places of before
C26_Witness ==
  /\ ev.kind \in {"align", "distribute"}
  /\ Len(history.past) > 0
  /\ Last(history.past).action = ev.kind
  /\ Len(Last(history.past).annotations) = Len(annotations)
  /\ Cardinality({ i \in 1..Len(annotations) :
                     Last(history.past).annotations[i].points # annotations[i].points }) >= 2
  /\ handleUndo(State).annotations = Last(history.past).annotations
  /\ \A i \in 1..Len(annotations) :
       i \notin SelectedAt => Last(history.past).annotations[i] = annotations[i]

\* ------------------------------------------------------------ vertex deletion
\* the index (from 1) of the first vertex of ann within 10 / scale of the
\* pointer of event e, 0 when there is none
VertexUnder(ann, e) ==
  LET p == getRelativeImagePos(State, e)
      th == OverScale(VertexThreshold, transform.scale)
      near == { k \in 1..Len(ann.points) : isPointNearVertex(ann.points[k], p, th) }
  IN IF near = {} THEN 0 ELSE SetMin(near)

\* e is an Alt+click (left button, select tool, space key not held) with
\* exactly one annotation selected, the unlocked polygon at index i
IsAltClickOn(e, i) ==
  /\ e.kind = "mouseDown" /\ e.button = 0 /\ e.altKey
  /\ currentTool = "select" /\ ~isSpacePressed
  /\ Len(selectedIds) = 1
  /\ i = FindAnn(annotations, selectedIds[1])
  /\ annotations[i].type = "polygon" /\ ~annotations[i].locked

\* C27: Alt+click on a vertex of the single selected, unlocked polygon removes
\* exactly that vertex when the polygon has more than 3 points; with exactly
\* 3 points the click is refused silently: the collection, the selection, the
\* history and activeVertex stay as they are, and no drag starts.
C27_AltClickVertex ==
  [][ \A i \in 1..Len(annotations) :
        (IsAltClickOn(ev', i) /\ VertexUnder(annotations[i], ev') # 0) =>
          LET ann == annotations[i]
              k == VertexUnder(ann, ev')
          IN IF Len(ann.points) > 3
             THEN /\ Len(annotations') = Len(annotations)
                  /\ annotations'[i].points =
                       [j \in 1..(Len(ann.points) - 1) |->
                          IF j < k THEN ann.points[j] ELSE ann.points[j + 1]]
                  /\ \A j \in 1..Len(annotations) : j # i => annotations'[j] = annotations[j]
             ELSE /\ annotations' = annotations
                  /\ selectedIds' = selectedIds
                  /\ history' = history
                  /\ activeVertex' = activeVertex
                  /\ ~isDragging' /\ dragStart' = dragStart ]_vars

\* C27 happens: a vertex of the selected polygon with 4 points was alt-clicked
\* and the polygon has the 3 other points left
C27_Witness ==
  /\ ev.kind = "mouseDown" /\ ev.altKey /\ ev.button = 0
  /\ Len(selectedIds) = 1
  /\ Len(history.past) > 0
  /\ Last(history.past).action = "deleteVertex"
  /\ \E i \in 1..Len(annotations) :
       /\ annotations[i].id = selectedIds[1]
       /\ Len(annotations[i].points) = 3
       /\ Len(Last(history.past).annotations[i].points) = 4
       /\ \A k \in 1..3 :
            ~isPointNearVertex(annotations[i].points[k], getRelativeImagePos(State, ev),
                               OverScale(VertexThreshold, transform.scale))

\* ------------------------------------------------------------ editing with the pointer
\* Scenes in the select tool with none, one or two shapes selected, one of
\* them with a second rectangle lying over a corner of the selected one,
\* followed by pointer moves, presses and releases.  probe remembers the
\* image position of the last pointer-down.
MaxEditEvents == 3

OverlappingRects(vp) == DrawRect(0, 0, 20, 20, vp) \o DrawRect(15, 15, 40, 40, vp)
ScriptUnderSelected(vp) ==
  OverlappingRects(vp) \o << Key("v") >> \o Click(5, 5, vp) \o << Move(20, 20, vp) >>
ScriptNoneSelected(vp) ==
  TwoRects(vp) \o << Key("v") >> \o Click(80, 80, vp) \o << Move(20, 20, vp) >>
ScriptBothSelected(vp) ==
  TwoRects(vp) \o << Key("v") >> \o Click(10, 10, vp) \o CtrlClick(40, 30, vp)
    \o << Move(20, 20, vp) >>
ScriptOneSelected(vp) ==
  TwoRects(vp) \o << Key("v") >> \o Click(10, 10, vp) \o << Move(0, 0, vp) >>
ScriptPolygonPicked(vp) ==
  DrawPolygon(vp) \o << Key("v") >> \o Click(10, 10, vp) \o << Move(20, 20, vp) >>
ScriptOverlapNone(vp) ==
  OverlappingRects(vp) \o << Key("v") >> \o Click(80, 80, vp) \o << Move(20, 20, vp) >>
ScriptTopHidden(vp) ==
  OverlappingRects(vp) \o << Key("v") >> \o Click(80, 80, vp)
    \o << Leave, UiEv("toggleVisible", 2, ""), Move(20, 20, vp) >>
ScriptTopLocked(vp) ==
  OverlappingRects(vp) \o << Key("v") >> \o Click(80, 80, vp)
    \o << Leave, UiEv("toggleLock", 2, ""), Move(20, 20, vp) >>
EditScripts(vp) ==
  { ScriptUnderSelected(vp), ScriptNoneSelected(vp), ScriptBothSelected(vp),
    ScriptOneSelected(vp), ScriptPolygonPicked(vp), ScriptOverlapNone(vp),
    ScriptTopHidden(vp), ScriptTopLocked(vp) }

InitEdit ==
  /\ \E vp \in {Viewport1, Viewport2} :
       /\ Loaded(handleImageUpload(vp.maxWidth, vp.maxHeight))
       /\ script \in EditScripts(vp)
  /\ ev = NoEvent
  /\ prevEv = NoEvent
  /\ atPointerDown = << >>
  /\ panning = FALSE
  /\ nEvents = 0
  /\ probe = NoProbe

\* a pointer event e after the script
HandleEdit(e) ==
  /\ script = << >>
  /\ nEvents < MaxEditEvents
  /\ Allowed(State, e)
  /\ Becomes(Step(State, e))
  /\ Remembered(e)
  /\ probe' = IF e.kind = "mouseDown"
              THEN [kind |-> "pointerDown", pos |-> getRelativeImagePos(State, e)]
              ELSE probe
  /\ nEvents' = nEvents + 1
  /\ UNCHANGED script

\* image points (in pixels) the pointer is moved to: corners and bodies of the
\* shapes, points beyond the opposite corner, at 5, 9 and 10 pixels of the
\* corner (20, 20), and free canvas
EditPts ==
  { <<0, 0>>, <<10, 10>>, <<20, 20>>, <<25, 20>>, <<29, 20>>, <<30, 20>>, <<30, 30>>, <<80, 80>> }

EditMove ==
  \E p \in EditPts :
    HandleEdit(MouseEv("mouseMove", ClientAt(p[1], p[2], T0(Val(viewport))), 0, ""))
EditDown == \E m \in {"", "ctrl"} : HandleEdit(MouseEv("mouseDown", PointerAt, 0, m))
EditUp == HandleEdit(MouseEv("mouseUp", PointerAt, 0, ""))

NextEdit == Replay \/ EditMove \/ EditDown \/ EditUp

SpecEdit == InitEdit /\ [][NextEdit]_vars

\* a corner drag of the rectangle at index i is under way: it is the single
\* selected annotation, activeVertex names it, and the rectangle had corners
\* (from the pointer-down, in the order of the handles) c
CornerDragOf(i) ==
  /\ probe.kind = "pointerDown"
  /\ ~IsNull(activeVertex)
  /\ Len(selectedIds) = 1
  /\ i = FindAnn(annotations, selectedIds[1])
  /\ Val(activeVertex).id = annotations[i].id
  /\ annotations[i].type = "rectangle"
  /\ Len(atPointerDown) = Len(annotations)

\* the corner opposite to handle h (0 to 3) of the rectangle ann
OppositeCorner(ann, h) == rectCorners(ann)[((h + 2) % 4) + 1]

\* C28: during a corner drag of a rectangle, after every pointer-move the
\* corner opposite to the grabbed handle, as it was at the pointer-down, is
\* still a corner of the rectangle, whatever path the pointer takes.
C28_OppositeCornerFixed ==
  \A i \in 1..Len(annotations) :
    (CornerDragOf(i) /\ ev.kind = "mouseMove") =>
      \E k \in 1..4 :
        rectCorners(annotations[i])[k] = OppositeCorner(atPointerDown[i], Val(activeVertex).index)

\* ann with (dx, dy) added to every point, nothing else changed
Shifted(ann, dx, dy) ==
  [ann EXCEPT !.points = [k \in 1..Len(ann.points) |->
                            [x |-> ann.points[k].x + dx, y |-> ann.points[k].y + dy]]]

\* a shape drag is under way: it began with the last pointer-down, on the
\* body of a shape in select mode, and no selected shape is locked
ShapeDragging ==
  /\ probe.kind = "pointerDown"
  /\ ShapeDragActive(State)
  /\ ~hasLocked(State)
  /\ Len(atPointerDown) = Len(annotations)

\* C29: during a shape drag in select mode, each pointer-move adds (position
\* of the pointer - its position at the pointer event before), in image
\* space, to every point of every selected annotation and nothing to the
\* others; and after the move every selected shape is displaced, from where it
\* was at the pointer-down, by what the pointer is displaced since then.
C29_DragFollowsPointer ==
  [][ (ShapeDragging /\ ev'.kind = "mouseMove" /\ ev.kind \in {"mouseDown", "mouseMove"}) =>
        LET now2 == getRelativeImagePos(State, ev')
            before == getRelativeImagePos(State, ev)
            down == probe.pos
        IN /\ Len(annotations') = Len(annotations)
           /\ \A i \in 1..Len(annotations) :
                IF Includes(selectedIds, annotations[i].id)
                THEN /\ annotations'[i] =
                          Shifted(annotations[i], now2.x - before.x, now2.y - before.y)
                     /\ annotations'[i] =
                          Shifted(atPointerDown[i], now2.x - down.x, now2.y - down.y)
                ELSE annotations'[i] = annotations[i] ]_vars

\* C29 happens: two pointer-moves to different places were made in a drag;
\* the selected shape is away from where it was at the pointer-down and an
\* unselected shape is where it was
C29_Witness ==
  /\ ShapeDragging
  /\ ev.kind = "mouseMove" /\ prevEv.kind = "mouseMove"
  /\ getRelativeImagePos(State, ev) # getRelativeImagePos(State, prevEv)
  /\ getRelativeImagePos(State, ev) # probe.pos
  /\ getRelativeImagePos(State, prevEv) # probe.pos
  /\ \E i \in 1..Len(annotations) :
       /\ Includes(selectedIds, annotations[i].id)
       /\ annotations[i].points # atPointerDown[i].points
  /\ \E i \in 1..Len(annotations) :
       /\ ~Includes(selectedIds, annotations[i].id)
       /\ annotations[i] = atPointerDown[i]

\* the handles of ann: the corners of a rectangle (top-left, top-right,
\* bottom-right, bottom-left), the vertices of a polygon
HandlesOf(ann) == IF ann.type = "rectangle" THEN rectCorners(ann) ELSE ann.points

\* the index (from 1) of the first handle of ann less than 10 / scale away
\* from the pointer of event e, 0 when there is none
HandleUnder(ann, e) ==
  LET p == getRelativeImagePos(State, e)
      th == OverScale(VertexThreshold, transform.scale)
      near == { k \in 1..Len(HandlesOf(ann)) : DistSq(HandlesOf(ann)[k], p) < th * th }
  IN IF near = {} THEN 0 ELSE SetMin(near)

\* e is a pointer-down in select mode (left button, space key not held)
\* without the Alt key
IsSelectPress(e) ==
  /\ e.kind = "mouseDown" /\ e.button = 0 /\ ~e.altKey
  /\ currentTool = "select" /\ ~isSpacePressed

\* exactly one annotation is selected, it is at index i and it is unlocked
OnlySelected(i) ==
  /\ Len(selectedIds) = 1
  /\ i = FindAnn(annotations, selectedIds[1])
  /\ i # 0
  /\ ~annotations[i].locked

\* C30: in select mode a pointer-down sets activeVertex only when exactly one
\* annotation is selected and it is unlocked (so never with zero, two or more
\* selected), and then only on a handle less than 10 / scale away or on a
\* hovered edge; with one unlocked annotation selected a handle hit goes
\* before the body click: the selection stays, activeVertex names the handle,
\* one snapshot of the collection is pushed, and no shape drag starts even
\* where another shape lies on top.
C30_VertexBeforeBody ==
  [][ IsSelectPress(ev') =>
        /\ ~IsNull(activeVertex') =>
             \E i \in 1..Len(annotations) :
               /\ OnlySelected(i)
               /\ \/ HandleUnder(annotations[i], ev') # 0
                  \/ ~IsNull(hoveredEdge) /\ Val(hoveredEdge).id = annotations[i].id
        /\ \A i \in 1..Len(annotations) :
             (OnlySelected(i) /\ HandleUnder(annotations[i], ev') # 0) =>
               /\ selectedIds' = selectedIds
               /\ activeVertex' = Some([id |-> annotations[i].id,
                                        index |-> HandleUnder(annotations[i], ev') - 1])
               /\ Len(history'.past) = Len(history.past) + 1
               /\ Last(history'.past).annotations = annotations
               /\ annotations' = annotations
               /\ ~isDragging' /\ dragStart' = dragStart ]_vars

\* C30 happens: the corner (20, 20) of the selected rectangle was pressed where
\* a second rectangle lies on top of it; the corner is grabbed, the selection
\* is as before and no drag of the second rectangle has started
C30_Witness ==
  /\ ev.kind = "mouseDown" /\ ev.button = 0 /\ currentTool = "select"
  /\ selectedIds = << 1 >>
  /\ activeVertex = Some([id |-> 1, index |-> 2])
  /\ ~isDragging
  /\ Len(history.past) > 0
  /\ Last(history.past).action = "resizeRect"
  /\ Len(annotations) = 2
  /\ annotations[1].id = 1
  /\ BodyHit(annotations[2], getRelativeImagePos(State, ev), 0)
  /\ ClickEligible(annotations[2])

\* ------------------------------------------------------------ body clicks
\* e presses a handle: exactly one unlocked annotation is selected and the
\* pointer is on one of its handles, or on a hovered edge of it (a polygon)
IsHandlePress(e) ==
  \E i \in 1..Len(annotations) :
    /\ OnlySelected(i)
    /\ \/ HandleUnder(annotations[i], e) # 0
       \/ /\ annotations[i].type = "polygon"
          /\ ~IsNull(hoveredEdge) /\ Val(hoveredEdge).id = annotations[i].id

\* e is a body click: a pointer-down in select mode (left button, space key
\* not held) that presses no handle
IsBodyPress(e) ==
  /\ e.kind = "mouseDown" /\ e.button = 0
  /\ currentTool = "select" /\ ~isSpacePressed
  /\ ~IsHandlePress(e)

\* the indices of the annotations that match the pointer of e: visible,
\* unlocked, and the bounding box grown by 5 / scale contains the pointer
MatchingAt(e) ==
  LET p == getRelativeImagePos(State, e)
      buf == OverScale(BodyBuffer, transform.scale)
  IN { i \in 1..Len(annotations) :
         /\ annotations[i].visible /\ ~annotations[i].locked
         /\ p.x >= BoxOf(annotations[i]).minX - buf /\ p.x <= BoxOf(annotations[i]).maxX + buf
         /\ p.y >= BoxOf(annotations[i]).minY - buf /\ p.y <= BoxOf(annotations[i]).maxY + buf }

SetOf(seq) == { seq[k] : k \in 1..Len(seq) }

\* C31: a body click hits the annotation latest in the collection among the
\* visible, unlocked ones whose bounding box grown by 5 / scale contains the
\* pointer: no other annotation enters or leaves the selection by it without
\* Ctrl, and without Ctrl the hit one is selected after the click; so hidden
\* and locked annotations are never selected by the click; a click that
\* matches no annotation, without Shift, empties the selection.
C31_TopmostBodyHit ==
  [][ IsBodyPress(ev') =>
        LET M == MatchingAt(ev')
        IN IF M # {}
           THEN LET X == annotations[SetMax(M)].id
                IN /\ SetOf(selectedIds') \ SetOf(selectedIds) \subseteq {X}
                   /\ ~ev'.ctrlKey => X \in SetOf(selectedIds')
                   /\ ev'.ctrlKey => SetOf(selectedIds) \ SetOf(selectedIds') \subseteq {X}
                   /\ isDragging'
           ELSE /\ ~ev'.shiftKey => selectedIds' = << >>
                /\ ~isDragging' ]_vars

\* C31 happens: with nothing selected, a point where two rectangles overlap
\* was clicked, and the upper one (the later in the collection) is selected
C31_Witness ==
  /\ ev.kind = "mouseDown" /\ ev.button = 0 /\ ~ev.ctrlKey
  /\ currentTool = "select"
  /\ isDragging
  /\ Len(annotations) = 2
  /\ selectedIds = << annotations[2].id >>
  /\ Len(history.past) > 0
  /\ Last(history.past).action = "move"
  /\ annotations[1].visible /\ ~annotations[1].locked
  /\ \A i \in 1..2 : BodyHit(annotations[i], getRelativeImagePos(State, ev), 0)
  /\ prevEv.kind = "mouseMove"
  /\ nEvents = 1

\* C32: on a body hit of annotation X, with Ctrl (or Cmd) held X is removed
\* from the selection if it was selected and added at its end otherwise, the
\* other members being kept; without Ctrl the selection becomes {X} if X was
\* not selected and stays as it is if X was selected.
C32_SelectionOnBodyHit ==
  [][ (IsBodyPress(ev') /\ MatchingAt(ev') # {}) =>
        LET X == annotations[SetMax(MatchingAt(ev'))].id
            NotX(id) == id # X
        IN selectedIds' =
             IF ev'.ctrlKey
             THEN IF Includes(selectedIds, X) THEN SelectSeq(selectedIds, NotX)
                  ELSE selectedIds \o << X >>
             ELSE IF Includes(selectedIds, X) THEN selectedIds ELSE << X >> ]_vars

\* C32 happens: with two rectangles selected, the first one was clicked with
\* Ctrl held and only the second one is selected now
C32_Witness ==
  /\ ev.kind = "mouseDown" /\ ev.button = 0 /\ ev.ctrlKey
  /\ currentTool = "select"
  /\ isDragging
  /\ Len(annotations) = 2
  /\ selectedIds = << annotations[2].id >>
  /\ BodyHit(annotations[1], getRelativeImagePos(State, ev), 0)
  /\ ~BodyHit(annotations[2], getRelativeImagePos(State, ev),
              OverScale(BodyBuffer, transform.scale))
  /\ ClickEligible(annotations[1])

\* ------------------------------------------------------------ vertex insertion
\* e is a press on the hovered edge (index h, from 0) of the single selected,
\* unlocked polygon at index i: a pointer-down in select mode on none of its
\* vertices, the hover state naming the polygon and an edge it has
IsEdgePress(e, i, h) ==
  /\ e.kind = "mouseDown" /\ e.button = 0
  /\ currentTool = "select" /\ ~isSpacePressed
  /\ OnlySelected(i)
  /\ annotations[i].type = "polygon"
  /\ HandleUnder(annotations[i], e) = 0
  /\ ~IsNull(hoveredEdge)
  /\ Val(hoveredEdge).id = annotations[i].id
  /\ h = Val(hoveredEdge).index
  /\ h < Len(annotations[i].points)

\* C33: a click on hovered edge h of the single selected, unlocked polygon
\* inserts exactly one point, the hovered one, at index h + 1, right after the
\* vertex the edge starts at, and keeps the other points in their order; it
\* makes {the polygon, h + 1} the active vertex, clears the hover state and
\* pushes one snapshot of the collection as it was.
C33_EdgeClickInserts ==
  [][ \A i \in 1..Len(annotations) : \A h \in 0..(Len(annotations[i].points) - 1) :
        IsEdgePress(ev', i, h) =>
          LET pts == annotations[i].points
          IN /\ Len(annotations') = Len(annotations)
             /\ annotations'[i] =
                  [annotations[i] EXCEPT !.points =
                     SubSeq(pts, 1, h + 1) \o << Val(hoveredEdge).point >>
                       \o SubSeq(pts, h + 2, Len(pts))]
             /\ \A j \in 1..Len(annotations) : j # i => annotations'[j] = annotations[j]
             /\ activeVertex' = Some([id |-> annotations[i].id, index |-> h + 1])
             /\ IsNull(hoveredEdge')
             /\ history'.past = Append(history.past,
                                       [annotations |-> annotations, action |-> "addVertex"])
             /\ selectedIds' = selectedIds ]_vars

\* C33 happens: an edge of the selected polygon of 4 points that is not its
\* last one was clicked, and the polygon has 5 points, the new one being the
\* active vertex and lying before the old points that followed the edge
C33_Witness ==
  /\ ev.kind = "mouseDown" /\ ev.button = 0
  /\ Len(selectedIds) = 1
  /\ ~IsNull(activeVertex)
  /\ IsNull(hoveredEdge)
  /\ Len(history.past) > 0
  /\ Last(history.past).action = "addVertex"
  /\ \E i \in 1..Len(annotations) :
       /\ annotations[i].id = Val(activeVertex).id
       /\ Len(annotations[i].points) = 5
       /\ Val(activeVertex).index < 4
       /\ annotations[i].points[Val(activeVertex).index + 1] = getRelativeImagePos(State, ev)
       /\ Len(Last(history.past).annotations[i].points) = 4

\* ------------------------------------------------------------ the active vertex
\* C34: whenever a vertex is active, exactly one annotation is selected and
\* it is the annotation the active vertex names, also when undo, redo, delete
\* or a lock toggle arrives between the pointer-down that made the vertex
\* active and the next pointer-up.
C34_ActiveVertexOfSelection ==
  ~IsNull(activeVertex) =>
    /\ Len(selectedIds) = 1
    /\ selectedIds[1] = Val(activeVertex).id
    /\ \E i \in 1..Len(annotations) : annotations[i].id = Val(activeVertex).id

\* ------------------------------------------------------------ keys while drawing
\* e is a key pressed outside a text input, with the modifiers given
IsKeyPress(e, key, ctrl, shift) ==
  /\ e.kind = "keyDown" /\ ~e.inInput
  /\ e.key = key /\ e.ctrlKey = ctrl /\ e.shiftKey = shift /\ ~e.altKey

Drawing == Len(pendingPoly) > 0 \/ ~IsNull(pendingRectStart)

\* C35: while a polygon is pending, the cancel key empties the pending list
\* and the backspace-point key removes exactly its last point, the earlier
\* ones staying in order; neither changes the collection; and while a polygon
\* or a rectangle is pending an arrow key, with or without Shift, moves nothing.
C35_KeysWhileDrawing ==
  [][ /\ (Len(pendingPoly) > 0 /\ IsKeyPress(ev', "escape", FALSE, FALSE)) =>
           pendingPoly' = <<>> /\ annotations' = annotations
      /\ (Len(pendingPoly) > 0 /\ IsKeyPress(ev', "backspace", FALSE, FALSE)) =>
           /\ Len(pendingPoly') = Len(pendingPoly) - 1
           /\ \A k \in 1..Len(pendingPoly') : pendingPoly'[k] = pendingPoly[k]
           /\ annotations' = annotations
      /\ \A name \in NudgeNames, shift \in BOOLEAN :
           (Drawing /\ IsKeyPress(ev', ArrowOf(name), FALSE, shift)) =>
              /\ annotations' = annotations
              /\ history' = history
              /\ pendingPoly' = pendingPoly
              /\ pendingRectStart' = pendingRectStart ]_vars

\* C35 happens: with an unlocked shape selected and two points pending, an
\* arrow key and then the backspace-point key were pressed; the first pending
\* point is left and the selected shape is where it was
C35_Witness ==
  /\ IsKeyPress(prevEv, "arrowleft", FALSE, FALSE)
  /\ IsKeyPress(ev, "backspace", FALSE, FALSE)
  /\ pendingPoly = << [x |-> 0, y |-> 0] >>
  /\ Len(selectedIds) = 1
  /\ \E i \in 1..Len(annotations) :
       /\ annotations[i].id = selectedIds[1]
       /\ ~annotations[i].locked
       /\ annotations[i].points = << [x |-> Px(30), y |-> Px(10)], [x |-> Px(50), y |-> Px(40)] >>

\* ------------------------------------------------------------ history of interactions
\* Scenes for interactions that change nothing: a shape under the pointer
\* with the select tool (with and without an undone step in future), the
\* rectangle tool and the polygon tool; then pointer moves, presses and
\* releases and the cancel key.  probe remembers the collection and the
\* history at the pointer-down that began the interaction (one with no
\* polygon pending), and how the interaction ended.
MaxQuietEvents == 3

ScriptOverShape(vp) == TwoRects(vp) \o << Key("v"), Move(10, 10, vp) >>
ScriptOverShapeUndone(vp) ==
  TwoRects(vp) \o << Key("v"), KeyEv("z", TRUE, FALSE), Move(10, 10, vp) >>
ScriptRectangleUndone(vp) ==
  TwoRects(vp) \o << KeyEv("z", TRUE, FALSE), Key("r"), Move(80, 80, vp) >>
ScriptPolygonUndone(vp) ==
  TwoRects(vp) \o << KeyEv("z", TRUE, FALSE), Key("p"), Move(80, 80, vp) >>
QuietScripts(vp) ==
  { ScriptOverShape(vp), ScriptOverShapeUndone(vp), ScriptRectangleUndone(vp),
    ScriptPolygonUndone(vp) }

InitQuiet ==
  /\ Loaded(handleImageUpload(Viewport1.maxWidth, Viewport1.maxHeight))
  /\ script \in QuietScripts(Viewport1)
  /\ ev = NoEvent
  /\ prevEv = NoEvent
  /\ atPointerDown = << >>
  /\ panning = FALSE
  /\ nEvents = 0
  /\ probe = NoProbe

\* how event e, handled in the state as it is, moves the record of the interaction
InteractionAfter(e) ==
  IF e.kind = "mouseDown" /\ Len(pendingPoly) = 0
  THEN [kind |-> "begun", annotations |-> annotations, history |-> history]
  ELSE IF probe.kind = "begun" /\ e.kind = "mouseUp" /\ Len(pendingPoly) = 0
  THEN [probe EXCEPT !.kind = "released"]
  ELSE IF probe.kind = "begun" /\ e.kind = "keyDown" /\ e.key = "escape" /\ Len(pendingPoly) > 0
  THEN [probe EXCEPT !.kind = "cancelled"]
  ELSE probe

\* an event e after the script
HandleQuiet(e) ==
  /\ script = << >>
  /\ nEvents < MaxQuietEvents
  /\ Allowed(State, e)
  /\ Becomes(Step(State, e))
  /\ Remembered(e)
  /\ probe' = InteractionAfter(e)
  /\ nEvents' = nEvents + 1
  /\ UNCHANGED script

QuietPts == { <<10, 10>>, <<12, 12>>, <<80, 80>>, <<82, 82>> }

QuietMove ==
  \E p \in QuietPts :
    HandleQuiet(MouseEv("mouseMove", ClientAt(p[1], p[2], T0(Val(viewport))), 0, ""))
QuietDown == HandleQuiet(MouseEv("mouseDown", PointerAt, 0, ""))
QuietUp == HandleQuiet(MouseEv("mouseUp", PointerAt, 0, ""))
QuietCancel == HandleQuiet(Key("escape"))

NextQuiet == Replay \/ QuietMove \/ QuietDown \/ QuietUp \/ QuietCancel

SpecQuiet == InitQuiet /\ [][NextQuiet]_vars

\* C36: an interaction that leaves the collection as it was leaves the
\* history as it was: after a press and release with no polygon pending (a
\* click on a shape, a rectangle too small to be kept) and after a polygon
\* cancelled with the cancel key, if the collection is the one of the
\* interaction's first pointer-down then so are past and future.
C36_QuietInteractionKeepsHistory ==
  (probe.kind \in {"released", "cancelled"} /\ annotations = probe.annotations) =>
     history = probe.history

\* ------------------------------------------------------------ locks and selection
\* C37: in every reachable state no selected annotation is locked: every
\* annotation of the collection whose id is in the selection has its locked
\* flag off, whatever lock toggles, canvas and sidebar clicks, creations,
\* undos and redos came before.
C37_SelectionUnlocked ==
  \A i \in 1..Len(annotations) :
    (\E k \in 1..Len(selectedIds) : selectedIds[k] = annotations[i].id) => ~annotations[i].locked

\* C37 happens: the row of a locked annotation was clicked in the sidebar
\* while another annotation was selected, and the selection is still that
\* other, unlocked annotation alone
C37_Witness ==
  /\ ev.kind = "rowClick"
  /\ Len(selectedIds) = 1
  /\ selectedIds[1] # ev.id
  /\ \E i, j \in 1..Len(annotations) :
       /\ annotations[i].id = ev.id /\ annotations[i].locked
       /\ annotations[j].id = selectedIds[1] /\ ~annotations[j].locked

\* ------------------------------------------------------------ undo then redo
HistoryTotal(h) == Len(h.past) + Len(h.future)

\* C38: an undo with a non-empty past followed at once by a redo restores the
\* collection, past and future, entries and labels, to what they were before
\* the undo; and every undo and every redo keeps the number of history
\* entries, past and future together.
C38_UndoThenRedoRestores ==
  [][ /\ (IsUndoKey(ev') /\ Len(history.past) > 0) =>
          LET r == handleRedo(StateNext)
          IN /\ r.annotations = annotations
             /\ r.history.past = history.past
             /\ r.history.future = history.future
      /\ (IsUndoKey(ev') \/ IsRedoKey(ev')) =>
          HistoryTotal(history') = HistoryTotal(history) ]_vars

\* C38 happens: an undo and then a redo were keyed with an older undone step
\* still in future; the redo has put back the newest entry of past, and the
\* older step, which would change the collection, is still the one to redo
C38_Witness ==
  /\ IsUndoKey(prevEv)
  /\ IsRedoKey(ev)
  /\ Len(history.future) > 0
  /\ Len(history.past) > 1
  /\ Head(history.future).annotations # annotations

\* ------------------------------------------------------------ back to idle
\* C39: after a pointer-up (a release or the pointer leaving the canvas)
\* followed by the cancel key, pressed outside a text input, the canvas is
\* idle: no drag in progress, no active vertex, no rectangle anchor and no
\* pending polygon point.
C39_UpThenCancelIdle ==
  (prevEv.kind \in {"mouseUp", "mouseLeave"} /\ IsKeyPress(ev, "escape", FALSE, FALSE)) =>
     /\ ~isDragging
     /\ IsNull(dragStart)
     /\ IsNull(activeVertex)
     /\ IsNull(pendingRectStart)
     /\ pendingPoly = << >>

\* C39 happens: a polygon point was placed, the button released and the
\* cancel key pressed while the point was pending; nothing is pending now
C39_Witness ==
  /\ prevEv.kind = "mouseUp"
  /\ IsKeyPress(ev, "escape", FALSE, FALSE)
  /\ probe.kind = "cancelled"
  /\ currentTool = "polygon"
  /\ pendingPoly = << >>
  /\ Len(history.past) > 0
  /\ Last(history.past).action = "createPolygon"

\* ------------------------------------------------------------ the hover state over time
\* Scenes for the hover state of an edge: the square polygon selected with the
\* pointer on its first edge; the same with the pointer on its last edge, 9
\* pixels from the last vertex, which an Alt-click has then deleted; and the
\* polygon with a vertex inserted on its first edge, the pointer moved to its
\* last edge, the insertion undone and the polygon selected again by a click.
\* The pointer has not moved since the hover state was computed.  Then
\* pointer moves, presses and releases.
MaxStaleEvents == 3

UpAt(x, y, vp) == MouseEv("mouseUp", ClientAt(x, y, T0(vp)), 0, "")
ScriptEdgeHovered(vp) == DrawPolygon(vp) \o << Key("v"), Move(10, 0, vp) >>
ScriptVertexDeleted(vp) ==
  DrawPolygon(vp)
    \o << Key("v"), Move(0, 11, vp), DownWith(0, 11, vp, "alt"), UpAt(0, 11, vp) >>
ScriptInsertionUndone(vp) ==
  DrawPolygon(vp)
    \o << Key("v"), Move(10, 0, vp), Down(10, 0, vp), UpAt(10, 0, vp), Move(0, 10, vp),
          KeyEv("z", TRUE, FALSE), Down(0, 10, vp), UpAt(0, 10, vp) >>
StaleScripts(vp) ==
  { ScriptEdgeHovered(vp), ScriptVertexDeleted(vp), ScriptInsertionUndone(vp) }

InitStale ==
  /\ Loaded(handleImageUpload(Viewport1.maxWidth, Viewport1.maxHeight))
  /\ script \in StaleScripts(Viewport1)
  /\ ev = NoEvent
  /\ prevEv = NoEvent
  /\ atPointerDown = << >>
  /\ panning = FALSE
  /\ nEvents = 0
  /\ probe = NoProbe

\* a pointer event e after the script
HandleStale(e) ==
  /\ script = << >>
  /\ nEvents < MaxStaleEvents
  /\ Allowed(State, e)
  /\ Becomes(Step(State, e))
  /\ Logged(e)
  /\ nEvents' = nEvents + 1
  /\ UNCHANGED script

StalePts == { <<10, 0>>, <<0, 10>>, <<0, 11>>, <<30, 30>>, <<10, 10>> }

StaleMove ==
  \E p \in StalePts :
    HandleStale(MouseEv("mouseMove", ClientAt(p[1], p[2], T0(Val(viewport))), 0, ""))
StaleDown == HandleStale(MouseEv("mouseDown", PointerAt, 0, ""))
StaleUp == HandleStale(MouseEv("mouseUp", PointerAt, 0, ""))

NextStale == Replay \/ StaleMove \/ StaleDown \/ StaleUp

SpecStale == InitStale /\ [][NextStale]_vars

\* C40: whenever a pointer move changes the points of a polygon through the
\* active vertex, the index of the active vertex is an index of the
\* polygon's point list (0 <= index < length), and the move writes that point
\* alone: the list keeps its length and its other points.
C40_VertexMoveInRange ==
  [][ \A i \in 1..Len(annotations) :
        ( /\ ev'.kind = "mouseMove"
          /\ ~IsNull(activeVertex)
          /\ OnlySelected(i)
          /\ Val(activeVertex).id = annotations[i].id
          /\ annotations[i].type = "polygon"
          /\ Len(annotations') = Len(annotations)
          /\ annotations'[i].points # annotations[i].points ) =>
            LET pts == annotations[i].points
                k == Val(activeVertex).index
            IN /\ 0 <= k /\ k < Len(pts)
               /\ Len(annotations'[i].points) = Len(pts)
               /\ \A j \in 1..Len(pts) : j # k + 1 => annotations'[i].points[j] = pts[j] ]_vars

====
